---- MODULE Spec2Model ----
(***************************************************************************)
(* Retrieval-and-grounding pipeline of the restaurant chatbot.             *)
(*                                                                         *)
(* Python objects are records tagged with their class in the field "type"; *)
(* a call's result is a record [outcome, value, msg] whose outcome is      *)
(* "return" or the name of the exception that left the call.               *)
(*                                                                         *)
(* Three specifications:                                                   *)
(*   Spec      the serving process of src/api/app.py: the module-level     *)
(*             build pipeline, statement by statement, then /chat requests *)
(*   ServeSpec the imported module serving /chat requests that are in      *)
(*             flight together, each handler step by step                  *)
(*   UnitSpec  direct calls of the components on arguments drawn from      *)
(*             bounded sets, as tests/test_chatbot.py and the __main__     *)
(*             blocks make them                                            *)
(***************************************************************************)
EXTENDS Integers, Sequences, FiniteSets, TLC

VARIABLES
    pc,              \* next module-level statement of app.py, "serving", "crashed" or "unit"
    db,              \* what the database path names: the SQLite store with its two tables, or nothing
    CONFIGRATION,    \* app.py:34, the loaded configuration
    faissTie,        \* how the flat index orders neighbours at equal distance
    FAQsDF,          \* app.py:36,40,44 (FAQsDF_c is the same object)
    MENUITEMsDF,     \* app.py:37,41,45 (MENUITEMsDF_c is the same object)
    FAQs_E,          \* app.py:48
    MENUITEMs_E,     \* app.py:49
    FAQsIndex,       \* app.py:52
    MENUITEMsIndex,  \* app.py:53
    RETRIEVE,        \* app.py:57, main's local: the last retrieve call's result
    requests,        \* the /chat requests clients have sent and where their handler stands
    call             \* the last request or direct call: operation, arguments, result

vars == <<pc, db, CONFIGRATION, faissTie, FAQsDF, MENUITEMsDF, FAQs_E, MENUITEMs_E,
          FAQsIndex, MENUITEMsIndex, RETRIEVE, requests, call>>

----------------------------------------------------------------------------
(* Bounds *)

MaxFaqRows == 3
MaxMenuRows == 1
MaxTopK == 3
MaxRequests == 2
EmbDim == 2
MaxListing == 3

----------------------------------------------------------------------------
(* Python values *)

None == [type |-> "NoneType"]
PyStr(s) == [type |-> "str", val |-> s]
PyInt(n) == [type |-> "int", num |-> n]
PyFloat(repr) == [type |-> "float", val |-> repr]
PyList(s) == [type |-> "list", items |-> s]

isinstance(obj, cls) == obj.type = cls

Return(v) == [outcome |-> "return", value |-> v, msg |-> ""]
Raise(exc, m) == [outcome |-> exc, value |-> None, msg |-> m]

\* A call's result together with the calls it made, in order, to the
\* capabilities handed to it (the embedding model, the indices, the tokenizer
\* and the generation model).
Traced(r, calls) == ("calls" :> calls) @@ r

Range(s) == {s[i] : i \in 1..Len(s)}

RECURSIVE SeqSum(_)
SeqSum(s) == IF s = <<>> THEN 0 ELSE Head(s) + SeqSum(Tail(s))

SeqsUpTo(S, n) == UNION {[1..m -> S] : m \in 0..n}

----------------------------------------------------------------------------
(* pandas.DataFrame: column names, row labels, and the rows by position *)

DataFrame(columns, index, rows) ==
    [type |-> "DataFrame", columns |-> columns, index |-> index, rows |-> rows]

len(df) == Len(df.rows)

\* pd.read_sql_query: the rows in query order under a RangeIndex 0..n-1
read_sql_query(columns, rows) ==
    DataFrame(columns, [i \in 1..Len(rows) |-> i - 1], rows)

\* DataFrame.drop_duplicates(): keeps the first occurrence of each row, in
\* order, and keeps the labels of the rows it keeps
KeptPositions(df) ==
    {i \in 1..len(df) : \A j \in 1..(i - 1) : df.rows[j] /= df.rows[i]}

RECURSIVE Ascending(_)
Ascending(S) ==
    IF S = {} THEN <<>>
    ELSE LET m == CHOOSE a \in S : \A b \in S : a <= b
         IN <<m>> \o Ascending(S \ {m})

drop_duplicates(df) ==
    LET keep == Ascending(KeptPositions(df))
    IN DataFrame(df.columns,
                 [i \in 1..Len(keep) |-> df.index[keep[i]]],
                 [i \in 1..Len(keep) |-> df.rows[keep[i]]])

\* df[name] = values: a new column is appended, an existing one is overwritten
SetColumn(df, name, values) ==
    DataFrame(IF name \in Range(df.columns) THEN df.columns
                                            ELSE Append(df.columns, name),
              df.index,
              [i \in 1..len(df) |-> (name :> values[i]) @@ df.rows[i]])

\* DataFrame.iloc[positions]: selection by position; a negative position counts
\* from the end, a position outside [-n, n) raises IndexError
IlocInBounds(df, p) == p < len(df) /\ p >= 0 - len(df)

IlocRow(df, p) == IF p >= 0 THEN df.rows[p + 1] ELSE df.rows[len(df) + p + 1]

\* iloc as selection by row label (DataFrame.loc)
loc(df, positions) ==
    IF \E j \in 1..Len(positions) : positions[j] \notin Range(df.index)
    THEN Raise("KeyError", "not in index")
    ELSE Return(DataFrame(df.columns, positions,
                          [j \in 1..Len(positions) |->
                              df.rows[CHOOSE i \in 1..len(df) : df.index[i] = positions[j]]]))

iloc(df, positions) ==
    IF \E j \in 1..Len(positions) : ~IlocInBounds(df, positions[j])
    THEN Raise("IndexError", "positional indexers are out-of-bounds")
    ELSE Return(DataFrame(df.columns,
                          [j \in 1..Len(positions) |->
                              IF positions[j] >= 0
                              THEN df.index[positions[j] + 1]
                              ELSE df.index[len(df) + positions[j] + 1]],
                          [j \in 1..Len(positions) |-> IlocRow(df, positions[j])]))

\* DataFrame.to_dict(orient="records"): the rows as a list of dicts, labels dropped
to_dict_records(df) == df.rows

----------------------------------------------------------------------------
(* Table cells: SQLite TEXT, INTEGER and NULL values, and what str() makes *)
(* of them (astype(str) in combined, the f-strings of generate)            *)

Txt(s) == [t |-> "str", v |-> s]
Num(n) == [t |-> "int", n |-> n]
Null == [t |-> "NoneType"]
Vec(x) == [t |-> "ndarray", x |-> x]

Digit(n) == <<"0", "1", "2", "3", "4", "5", "6", "7", "8", "9">>[n + 1]

RECURSIVE Decimal(_)
Decimal(n) == IF n < 10 THEN Digit(n) ELSE Decimal(n \div 10) \o Digit(n % 10)

str(cell) ==
    CASE cell.t = "str" -> cell.v
      [] cell.t = "int" -> IF cell.n < 0 THEN "-" \o Decimal(0 - cell.n) ELSE Decimal(cell.n)
      [] cell.t = "NoneType" -> "None"
      [] OTHER -> "[...]"

\* sep.join(strs)
RECURSIVE join(_, _)
join(sep, strs) ==
    IF strs = <<>> THEN ""
    ELSE IF Len(strs) = 1 THEN strs[1]
    ELSE strs[1] \o sep \o join(sep, Tail(strs))

----------------------------------------------------------------------------
(* CombinedTables.combined *)

WithDf(r, df) == [outcome |-> r.outcome, value |-> r.value, msg |-> r.msg, df |-> df]

\* CombinedValue leaving NULL cells out of the joined text
CombinedValue_skip_null(columns, row) ==
    LET NotNull(c) == row[c] /= Null
        kept == SelectSeq(columns, NotNull)
    IN Txt(join(" ", [c \in 1..Len(kept) |-> str(row[kept[c]])]))

\* line 67: df[columns].astype(str).agg(' '.join, axis=1), the value of row i
CombinedValue(columns, row) ==
    Txt(join(" ", [c \in 1..Len(columns) |-> str(row[columns[c]])]))

\* The result, and in field df the caller's table after the call (the column
\* is assigned in place and the same object is returned).
combined(columns, df) ==
    IF ~isinstance(columns, "list")
    THEN WithDf(Raise("ValueError",
                      "The 'columns' parameter must be a list of column names."), df)
    ELSE IF ~isinstance(df, "DataFrame")
    THEN WithDf(Raise("ValueError", "The 'df' parameter must be a pandas DataFrame."), df)
    ELSE IF \E c \in 1..Len(columns.items) : columns.items[c] \notin Range(df.columns)
    \* lines 62-64 only log; df[columns] of line 67 raises
    THEN WithDf(Raise("KeyError", "not in index"), df)
    ELSE LET out == SetColumn(df, "combined",
                        [i \in 1..len(df) |-> CombinedValue(columns.items, df.rows[i])])
         IN WithDf(Return(out), out)

----------------------------------------------------------------------------
(* The embedding capability: SentenceTransformer.encode                    *)

\* A loaded sentence-embedding model: its output width, and whether its
\* encode call fails (device or runtime error inside the library).
SentenceTransformer(dim, raises) ==
    [type |-> "SentenceTransformer", dim |-> dim, raises |-> raises]

EMBEDDINGMODEL == SentenceTransformer(EmbDim, FALSE)

\* The model as a fixed function of the text: the first two coordinates of
\* the vector (all further coordinates are 0).  The model is uncased, so
\* texts that differ only in case get the same vector.
EmbeddingTable(text) ==
    CASE text = "hours 9to5" -> <<3, 0>>
      [] text = "wifi yes" -> <<0, 2>>
      [] text = "WIFI yes" -> <<0, 2>>
      [] text = "soup lentil" -> <<2, 2>>
      [] text = "cake date" -> <<0, 1>>
      [] text = "What is the menu?" -> <<1, 2>>
      [] OTHER -> <<0, 0>>

encode(embedding_model, text) ==
    IF embedding_model.raises THEN Raise("RuntimeError", "encode failed")
    ELSE Return([i \in 1..embedding_model.dim |->
                    IF i <= 2 THEN EmbeddingTable(text)[i] ELSE 0])

EncodeCall(text) == [fn |-> "embedding_model.encode", text |-> text]

----------------------------------------------------------------------------
(* EmbeddingForCombined.embedded *)

ndarray(shape, data) == [type |-> "ndarray", shape |-> shape, data |-> data]

\* EmbeddedTry stacking the row embeddings last row first
EmbeddedTry_reversed(embedding_model, df, column) ==
    LET encs == [i \in 1..len(df) |-> encode(embedding_model, str(df.rows[i][column]))]
        calls == [i \in 1..len(df) |-> EncodeCall(str(df.rows[i][column]))]
        failed == {i \in 1..len(df) : encs[i].outcome /= "return"}
    IN IF failed /= {}
       THEN Traced(WithDf(Raise("RuntimeError",
                            "An error occurred while generating embeddings: encode failed"), df),
                   SubSeq(calls, 1, CHOOSE i \in failed : \A j \in failed : i <= j))
       ELSE LET out == SetColumn(df, column \o "_embedding",
                                 [i \in 1..len(df) |-> Vec(encs[i].value)])
            IN IF len(df) = 0
               THEN Traced(WithDf(Raise("RuntimeError",
                        "An error occurred while generating embeddings: need at least one array to concatenate"),
                        out), calls)
               ELSE Traced(WithDf(Return(ndarray(<<len(df), embedding_model.dim>>,
                                     [i \in 1..len(df) |-> encs[len(df) + 1 - i].value])), out),
                           calls)

\* lines 92-104 inside the try block: the embedding column is assigned in
\* place (line 94) before np.vstack (line 103) runs
EmbeddedTry(embedding_model, df, column) ==
    LET encs == [i \in 1..len(df) |-> encode(embedding_model, str(df.rows[i][column]))]
        calls == [i \in 1..len(df) |-> EncodeCall(str(df.rows[i][column]))]
        failed == {i \in 1..len(df) : encs[i].outcome /= "return"}
    IN IF failed /= {}
       \* Series.apply stops at the first row whose encode raises
       THEN Traced(WithDf(Raise("RuntimeError",
                            "An error occurred while generating embeddings: encode failed"), df),
                   SubSeq(calls, 1, CHOOSE i \in failed : \A j \in failed : i <= j))
       ELSE LET out == SetColumn(df, column \o "_embedding",
                                 [i \in 1..len(df) |-> Vec(encs[i].value)])
            IN IF len(df) = 0
               THEN Traced(WithDf(Raise("RuntimeError",
                        "An error occurred while generating embeddings: need at least one array to concatenate"),
                        out), calls)
               ELSE Traced(WithDf(Return(ndarray(<<len(df), embedding_model.dim>>,
                                                 [i \in 1..len(df) |-> encs[i].value])), out),
                           calls)

embedded(embedding_model, df, column) ==
    IF ~isinstance(embedding_model, "SentenceTransformer")
    THEN Traced(WithDf(Raise("ValueError",
                "The 'embedding_model' must be an instance of SentenceTransformer."), df), <<>>)
    ELSE IF ~isinstance(df, "DataFrame")
    THEN Traced(WithDf(Raise("ValueError", "The 'df' must be a pandas DataFrame."), df), <<>>)
    ELSE IF ~isinstance(column, "str")
    THEN Traced(WithDf(Raise("ValueError",
                "The 'column' must be a string representing a column name."), df), <<>>)
    ELSE IF column.val \notin Range(df.columns)
    THEN Traced(WithDf(Raise("ValueError", "The column does not exist in the DataFrame."), df),
                <<>>)
    ELSE EmbeddedTry(embedding_model, df, column.val)

----------------------------------------------------------------------------
(* FAISSIndex.create_faiss_index and faiss.IndexFlatL2 *)

IndexFlatL2(d, xb) == [type |-> "IndexFlatL2", d |-> d, xb |-> xb]

ntotal(index) == Len(index.xb)

\* create_faiss_index adding the matrix rows last to first
create_faiss_index_reversed(embedding_array) ==
    IF ~isinstance(embedding_array, "ndarray")
    THEN Raise("ValueError", "The 'embedding_array' must be a NumPy array.")
    ELSE IF Len(embedding_array.shape) /= 2
    THEN Raise("ValueError", "The 'embedding_array' must be a 2D NumPy array with shape (num_samples, embedding_dimension).")
    ELSE Return(IndexFlatL2(embedding_array.shape[2],
                    [i \in 1..Len(embedding_array.data) |->
                        embedding_array.data[Len(embedding_array.data) + 1 - i]]))

\* create_faiss_index taking a 1-D array as a matrix of one row
create_faiss_index_atleast_2d(embedding_array) ==
    IF ~isinstance(embedding_array, "ndarray")
    THEN Raise("ValueError", "The 'embedding_array' must be a NumPy array.")
    ELSE IF Len(embedding_array.shape) = 1
    THEN Return(IndexFlatL2(embedding_array.shape[1], <<embedding_array.data>>))
    ELSE IF Len(embedding_array.shape) /= 2
    THEN Raise("ValueError", "The 'embedding_array' must be a 2D NumPy array with shape (num_samples, embedding_dimension).")
    ELSE Return(IndexFlatL2(embedding_array.shape[2], embedding_array.data))

create_faiss_index(embedding_array) ==
    IF ~isinstance(embedding_array, "ndarray")
    THEN Raise("ValueError", "The 'embedding_array' must be a NumPy array.")
    ELSE IF Len(embedding_array.shape) /= 2
    THEN Raise("ValueError", "The 'embedding_array' must be a 2D NumPy array with shape (num_samples, embedding_dimension).")
    ELSE Return(IndexFlatL2(embedding_array.shape[2], embedding_array.data))

\* squared Euclidean distance
L2(x, y) == SeqSum([i \in 1..Len(x) |-> (x[i] - y[i]) * (x[i] - y[i])])

\* position p (0-based) is reported before position q
Nearer(index, x, p, q) ==
    LET dp == L2(x, index.xb[p + 1])
        dq == L2(x, index.xb[q + 1])
    IN dp < dq \/ (dp = dq /\ IF faissTie = "low" THEN p < q ELSE p > q)

\* the k labels of one query row: stored positions by increasing distance,
\* then -1 for every result the index has no vector for
RECURSIVE Neighbours(_, _, _, _)
Neighbours(index, x, k, left) ==
    IF k = 0 THEN <<>>
    ELSE IF left = {} THEN <<-1>> \o Neighbours(index, x, k - 1, left)
    ELSE LET best == CHOOSE p \in left : \A q \in left \ {p} : Nearer(index, x, p, q)
         IN <<best>> \o Neighbours(index, x, k - 1, left \ {best})

\* search asking for one neighbour more than k
search_one_more(index, x, k) ==
    IF Len(x) /= index.d THEN Raise("AssertionError", "")
    ELSE Return(Neighbours(index, x, k + 1, 0..(ntotal(index) - 1)))

\* search cutting or zero-padding the query row to the index dimension
search_resized(index, x, k) ==
    Return(Neighbours(index, [i \in 1..index.d |-> IF i <= Len(x) THEN x[i] ELSE 0], k,
                      0..(ntotal(index) - 1)))

\* index.search(x, k)[1][0] for a batch x of one row; the SWIG wrapper
\* asserts that the row width is the index dimension
search(index, x, k) ==
    IF Len(x) /= index.d THEN Raise("AssertionError", "")
    ELSE Return(Neighbours(index, x, k, 0..(ntotal(index) - 1)))

----------------------------------------------------------------------------
(* Retrieve.retrieve *)

dict(f) == [type |-> "dict", val |-> f]

SearchCall(name, k) == [fn |-> name \o ".search", k |-> k]

\* RetrieveBody projecting the first table with the positions the second
\* index reported
RetrieveBody_shared_labels(query, embedding_model, index_1, index_2, df_index_1, df_index_2, top_k) ==
    LET enc == encode(embedding_model, query.val)
        c0 == <<EncodeCall(query.val)>>
    IN IF enc.outcome /= "return" THEN Traced(enc, c0) ELSE
    LET query_embedding == enc.value
        s1 == search(index_1, query_embedding, top_k.num)
        c1 == Append(c0, SearchCall("index_1", top_k.num))
    IN IF s1.outcome /= "return" THEN Traced(s1, c1) ELSE
    LET s2 == search(index_2, query_embedding, top_k.num)
        c2 == Append(c1, SearchCall("index_2", top_k.num))
    IN IF s2.outcome /= "return" THEN Traced(s2, c2) ELSE
    LET p1 == iloc(df_index_1, s2.value)
    IN IF p1.outcome /= "return" THEN Traced(p1, c2) ELSE
    LET index_1_results == to_dict_records(p1.value)
        p2 == iloc(df_index_2, s2.value)
    IN IF p2.outcome /= "return" THEN Traced(p2, c2) ELSE
    LET index_2_results == to_dict_records(p2.value)
    IN Traced(Return(dict(("query" :> query) @@ ("_1_result" :> index_1_results)
                          @@ ("_2_result" :> index_2_results))), c2)

\* lines 121-143, the body of the try block: the first failing step ends it
RetrieveBody(query, embedding_model, index_1, index_2, df_index_1, df_index_2, top_k) ==
    LET enc == encode(embedding_model, query.val)
        c0 == <<EncodeCall(query.val)>>
    IN IF enc.outcome /= "return" THEN Traced(enc, c0) ELSE
    LET query_embedding == enc.value
        s1 == search(index_1, query_embedding, top_k.num)
        c1 == Append(c0, SearchCall("index_1", top_k.num))
    IN IF s1.outcome /= "return" THEN Traced(s1, c1) ELSE
    LET p1 == iloc(df_index_1, s1.value)
    IN IF p1.outcome /= "return" THEN Traced(p1, c1) ELSE
    LET index_1_results == to_dict_records(p1.value)
        s2 == search(index_2, query_embedding, top_k.num)
        c2 == Append(c1, SearchCall("index_2", top_k.num))
    IN IF s2.outcome /= "return" THEN Traced(s2, c2) ELSE
    LET p2 == iloc(df_index_2, s2.value)
    IN IF p2.outcome /= "return" THEN Traced(p2, c2) ELSE
    LET index_2_results == to_dict_records(p2.value)
    IN Traced(Return(dict(("query" :> query) @@ ("_1_result" :> index_1_results)
                          @@ ("_2_result" :> index_2_results))), c2)

\* retrieve answering a failure of its body with a result without records
RetrieveTryPartial(query, embedding_model, index_1, index_2, df_index_1, df_index_2, top_k) ==
    LET r == RetrieveBody(query, embedding_model, index_1, index_2,
                          df_index_1, df_index_2, top_k)
    IN IF r.outcome = "return" THEN r
       ELSE Traced(Return(dict(("query" :> query) @@ ("_1_result" :> <<>>)
                               @@ ("_2_result" :> <<>>))), r.calls)

\* lines 120, 145-148: any exception of the body leaves as RuntimeError
RetrieveTry(query, embedding_model, index_1, index_2, df_index_1, df_index_2, top_k) ==
    LET r == RetrieveBody(query, embedding_model, index_1, index_2,
                          df_index_1, df_index_2, top_k)
    IN IF r.outcome = "return" THEN r
       ELSE Traced(Raise("RuntimeError",
                         "An error occurred during the retrieval process: " \o r.msg),
                   r.calls)

\* retrieve rejecting only a negative top_k
retrieve_zero_allowed(query, embedding_model, index_1, index_2, df_index_1, df_index_2, top_k) ==
    IF ~isinstance(query, "str")
    THEN Traced(Raise("ValueError", "The 'query' must be a string."), <<>>)
    ELSE IF ~isinstance(embedding_model, "SentenceTransformer")
    THEN Traced(Raise("ValueError",
               "The 'embedding_model' must be an instance of SentenceTransformer."), <<>>)
    ELSE IF ~isinstance(index_1, "IndexFlatL2") \/ ~isinstance(index_2, "IndexFlatL2")
    THEN Traced(Raise("ValueError",
               "The 'index_1' and 'index_2' must be instances of faiss.IndexFlatL2."), <<>>)
    ELSE IF ~isinstance(df_index_1, "DataFrame") \/ ~isinstance(df_index_2, "DataFrame")
    THEN Traced(Raise("ValueError",
               "The 'df_index_1' and 'df_index_2' must be pandas DataFrames."), <<>>)
    ELSE IF ~isinstance(top_k, "int") \/ top_k.num < 0
    THEN Traced(Raise("ValueError", "The 'top_k' must be a positive integer."), <<>>)
    ELSE RetrieveTry(query, embedding_model, index_1, index_2,
                     df_index_1, df_index_2, top_k)

\* retrieve encoding the query as soon as the query and the model are
\* validated, before it validates the indices, the tables and top_k
retrieve_encode_first(query, embedding_model, index_1, index_2, df_index_1, df_index_2, top_k) ==
    IF ~isinstance(query, "str")
    THEN Traced(Raise("ValueError", "The 'query' must be a string."), <<>>)
    ELSE IF ~isinstance(embedding_model, "SentenceTransformer")
    THEN Traced(Raise("ValueError",
               "The 'embedding_model' must be an instance of SentenceTransformer."), <<>>)
    ELSE IF ~isinstance(index_1, "IndexFlatL2") \/ ~isinstance(index_2, "IndexFlatL2")
    THEN Traced(Raise("ValueError",
               "The 'index_1' and 'index_2' must be instances of faiss.IndexFlatL2."),
                <<EncodeCall(query.val)>>)
    ELSE IF ~isinstance(df_index_1, "DataFrame") \/ ~isinstance(df_index_2, "DataFrame")
    THEN Traced(Raise("ValueError",
               "The 'df_index_1' and 'df_index_2' must be pandas DataFrames."),
                <<EncodeCall(query.val)>>)
    ELSE IF ~isinstance(top_k, "int") \/ top_k.num <= 0
    THEN Traced(Raise("ValueError", "The 'top_k' must be a positive integer."),
                <<EncodeCall(query.val)>>)
    ELSE RetrieveTry(query, embedding_model, index_1, index_2,
                     df_index_1, df_index_2, top_k)

retrieve(query, embedding_model, index_1, index_2, df_index_1, df_index_2, top_k) ==
    IF ~isinstance(query, "str")
    THEN Traced(Raise("ValueError", "The 'query' must be a string."), <<>>)
    ELSE IF ~isinstance(embedding_model, "SentenceTransformer")
    THEN Traced(Raise("ValueError",
               "The 'embedding_model' must be an instance of SentenceTransformer."), <<>>)
    ELSE IF ~isinstance(index_1, "IndexFlatL2") \/ ~isinstance(index_2, "IndexFlatL2")
    THEN Traced(Raise("ValueError",
               "The 'index_1' and 'index_2' must be instances of faiss.IndexFlatL2."), <<>>)
    ELSE IF ~isinstance(df_index_1, "DataFrame") \/ ~isinstance(df_index_2, "DataFrame")
    THEN Traced(Raise("ValueError",
               "The 'df_index_1' and 'df_index_2' must be pandas DataFrames."), <<>>)
    ELSE IF ~isinstance(top_k, "int") \/ top_k.num <= 0
    THEN Traced(Raise("ValueError", "The 'top_k' must be a positive integer."), <<>>)
    ELSE RetrieveTry(query, embedding_model, index_1, index_2,
                     df_index_1, df_index_2, top_k)

----------------------------------------------------------------------------
(* GenerateResponse.generate *)

\* an argument the caller did not pass
Missing == [type |-> "<missing>"]

\* What FlanT5Load.load returns: a transformers text2text-generation pipeline.
FLANMODEL == [type |-> "Text2TextGenerationPipeline", raises |-> FALSE]

\* lines 126-127 and 133-137: one prompt line per record; a record without
\* the key raises KeyError
FaqKeys == <<"question", "answer">>
MenuKeys == <<"name", "description", "ingredients", "allergens">>

HasKeys(rec, keys) == \A i \in 1..Len(keys) : keys[i] \in DOMAIN rec

\* the key whose lookup raises: the first missing key of the first record
\* that lacks one
FirstMissingKey(records, keys) ==
    LET r == CHOOSE i \in 1..Len(records) :
                 /\ ~HasKeys(records[i], keys)
                 /\ \A j \in 1..(i - 1) : HasKeys(records[j], keys)
        k == CHOOSE i \in 1..Len(keys) :
                 /\ keys[i] \notin DOMAIN records[r]
                 /\ \A j \in 1..(i - 1) : keys[j] \in DOMAIN records[r]
    IN keys[k]

FaqLine(faq) ==
    "- Q: " \o str(faq["question"]) \o " A: " \o str(faq["answer"]) \o "\n"

MenuLine(item) ==
    "- " \o str(item["name"]) \o ": " \o str(item["description"]) \o " (Ingredients: "
    \o str(item["ingredients"]) \o ", Allergens: " \o str(item["allergens"]) \o ")\n"

Preamble ==
    "You are a helpful assistant for a restaurant in Saudi Arabia. "
    \o "Answer the question based on the provided context:\n\n"

\* dict.get(key, [])
Get(d, key) == IF key \in DOMAIN d.val THEN d.val[key] ELSE <<>>

\* Context writing the section headers whether or not the lists are empty
Context_always_headers(query, retriever) ==
    LET faq_results == Get(retriever, "_1_result")
        menu_results == Get(retriever, "_2_result")
    IN Preamble
       \o "FAQs:\n" \o join("", [i \in 1..Len(faq_results) |-> FaqLine(faq_results[i])])
       \o "\nMenu Items:\n"
       \o join("", [i \in 1..Len(menu_results) |-> MenuLine(menu_results[i])])
       \o "\nUser Query: " \o query.val \o "\n\n"

\* Context writing the menu block before the FAQ block
Context_menu_first(query, retriever) ==
    LET faq_results == Get(retriever, "_1_result")
        menu_results == Get(retriever, "_2_result")
    IN Preamble
       \o (IF menu_results /= <<>>
           THEN "\nMenu Items:\n"
                \o join("", [i \in 1..Len(menu_results) |-> MenuLine(menu_results[i])])
           ELSE "")
       \o (IF faq_results /= <<>>
           THEN "FAQs:\n" \o join("", [i \in 1..Len(faq_results) |-> FaqLine(faq_results[i])])
           ELSE "")
       \o "\nUser Query: " \o query.val \o "\n\n"

\* lines 117-140
Context(query, retriever) ==
    LET faq_results == Get(retriever, "_1_result")
        menu_results == Get(retriever, "_2_result")
    IN Preamble
       \o (IF faq_results /= <<>>
           THEN "FAQs:\n" \o join("", [i \in 1..Len(faq_results) |-> FaqLine(faq_results[i])])
           ELSE "")
       \o (IF menu_results /= <<>>
           THEN "\nMenu Items:\n"
                \o join("", [i \in 1..Len(menu_results) |-> MenuLine(menu_results[i])])
           ELSE "")
       \o "\nUser Query: " \o query.val \o "\n\n"

\* tokenizer.encode(context, return_tensors="pt", truncation=True): the
\* token ids of the text (prompts of this size stay under the truncation
\* length of the tokenizer)
Tensor(text) == [type |-> "Tensor", text |-> text]

\* The generation capability, prompt -> text, with special tokens already
\* skipped by tokenizer.decode (line 157).
GeneratedText(context) == "<answer to>" \o context

TokenizerEncodeCall(context) ==
    [fn |-> "tokenizer.encode", text |-> context, truncation |-> TRUE]

\* lines 148-156
GenerateCall(input_ids, knobs) ==
    [fn |-> "generate_model.generate", input_ids |-> input_ids, knobs |-> knobs,
     num_return_sequences |-> 1]

TokenizerDecodeCall == [fn |-> "tokenizer.decode", skip_special_tokens |-> TRUE]

\* GenerateTry calling the model a second time when the first call raises
GenerateTry_retry(query, retriever, generate_model, tokenizer, knobs) ==
    LET context == Context(query, retriever)
        c0 == <<TokenizerEncodeCall(context)>>
        c1 == Append(c0, GenerateCall(Tensor(context), knobs))
    IN IF tokenizer.raises
       THEN Traced(Raise("RuntimeError",
                         "An error occurred during response generation: encode failed"), c0)
       ELSE IF generate_model.raises
       THEN Traced(Return(PyStr(GeneratedText(context))),
                   c1 \o <<GenerateCall(Tensor(context), knobs), TokenizerDecodeCall>>)
       ELSE Traced(Return(PyStr(GeneratedText(context))), Append(c1, TokenizerDecodeCall))

\* lines 145-165: the first call that raises ends the try block
GenerateTry(query, retriever, generate_model, tokenizer, knobs) ==
    LET context == Context(query, retriever)
        c0 == <<TokenizerEncodeCall(context)>>
        c1 == Append(c0, GenerateCall(Tensor(context), knobs))
    IN IF tokenizer.raises
       THEN Traced(Raise("RuntimeError",
                         "An error occurred during response generation: encode failed"), c0)
       ELSE IF generate_model.raises
       THEN Traced(Raise("RuntimeError",
                         "An error occurred during response generation: generate failed"), c1)
       ELSE Traced(Return(PyStr(GeneratedText(context))), Append(c1, TokenizerDecodeCall))

generate(query, retriever, generate_model, tokenizer, knobs) ==
    \* the signature (lines 65-76) gives tokenizer no default
    IF tokenizer = Missing
    THEN Traced(Raise("TypeError",
                      "generate() missing 1 required positional argument: 'tokenizer'"), <<>>)
    ELSE IF ~isinstance(query, "str")
    THEN Traced(Raise("ValueError", "The 'query' must be a string."), <<>>)
    ELSE IF ~isinstance(retriever, "dict")
    THEN Traced(Raise("ValueError", "The 'retriever' must be a dictionary."), <<>>)
    ELSE IF ~isinstance(generate_model, "AutoModelForSeq2SeqLM")
    THEN Traced(Raise("ValueError",
                      "The 'generate_model' must be an instance of AutoModelForSeq2SeqLM."),
                <<>>)
    ELSE IF ~isinstance(tokenizer, "AutoTokenizer")
    THEN Traced(Raise("ValueError", "The 'tokenizer' must be an instance of AutoTokenizer."),
                <<>>)
    ELSE IF \E i \in 1..Len(Get(retriever, "_1_result")) :
                ~HasKeys(Get(retriever, "_1_result")[i], FaqKeys)
    THEN Traced(Raise("KeyError", FirstMissingKey(Get(retriever, "_1_result"), FaqKeys)),
                <<>>)
    ELSE IF \E i \in 1..Len(Get(retriever, "_2_result")) :
                ~HasKeys(Get(retriever, "_2_result")[i], MenuKeys)
    THEN Traced(Raise("KeyError", FirstMissingKey(Get(retriever, "_2_result"), MenuKeys)),
                <<>>)
    ELSE GenerateTry(query, retriever, generate_model, tokenizer, knobs)

----------------------------------------------------------------------------
(* The store and the configuration *)

FaqColumns == <<"question", "answer">>
MenuColumns == <<"name", "description", "ingredients", "allergens">>

FaqPool ==
    { [question |-> Txt("hours"), answer |-> Txt("9to5")],
      [question |-> Txt("wifi"), answer |-> Txt("yes")],
      [question |-> Txt("WIFI"), answer |-> Txt("yes")] }

MenuPool ==
    { [name |-> Txt("soup"), description |-> Txt("lentil"),
       ingredients |-> Txt("lentils"), allergens |-> Txt("none")],
      [name |-> Txt("cake"), description |-> Txt("date"),
       ingredients |-> Txt("flour"), allergens |-> Txt("gluten")] }

\* What db_path can name on disk: nothing, a directory, a file that is no
\* SQLite database, or a database with its two tables.
Absent == [type |-> "absent"]
Directory == [type |-> "directory"]
TextFile == [type |-> "file"]
SqliteFile(faqs, menu_items) == [type |-> "sqlite", faqs |-> faqs, menu_items |-> menu_items]

Databases ==
    {SqliteFile(f, m) : f \in SeqsUpTo(FaqPool, MaxFaqRows), m \in SeqsUpTo(MenuPool, MaxMenuRows)}

\* Config.__init__: the options the pipeline reads
Configs ==
    [FAQsQ : {PyStr("faqs")}, MENUITEMsQ : {PyStr("menu_items")},
     columns_faqs : {PyList(<<"question", "answer">>)},
     columns_menuitems : {PyList(<<"name", "description">>)},
     top_k_results : {PyInt(1), PyInt(MaxTopK)},
     max_length : {250}, do_sample : {TRUE}, temperature : {"0.5"},
     top_p : {"0.6"}, top_k : {50}]

\* the exception classes of the sqlite3 module; all derive from sqlite3.Error
SqliteErrors == {"sqlite3.Error", "sqlite3.OperationalError", "sqlite3.DatabaseError"}

\* sqlite3.connect(db_path) opens the file lazily: it fails only when the
\* path cannot be opened as a file
connect(store) ==
    IF store.type = "directory"
    THEN Raise("sqlite3.OperationalError", "unable to open database file")
    ELSE Return(store)

\* pd.read_sql_query(query, conn): all rows of the queried table.  pandas
\* catches whatever the execution of the statement raises and raises its own
\* pandas.errors.DatabaseError (a subclass of OSError) from it.
execute_query(conn, query) ==
    IF conn.type /= "sqlite"
    THEN Raise("pandas.errors.DatabaseError", "Execution failed on sql: file is not a database")
    ELSE IF query.val = "faqs" THEN Return(read_sql_query(FaqColumns, conn.faqs))
    ELSE IF query.val = "menu_items" THEN Return(read_sql_query(MenuColumns, conn.menu_items))
    ELSE Raise("pandas.errors.DatabaseError", "Execution failed on sql: no such table")

\* a result of ingest with the state its connection is left in: "none" when
\* no connection was opened, else "open" or "closed"
WithConn(r, conn, calls) ==
    [outcome |-> r.outcome, value |-> r.value, msg |-> r.msg, conn |-> conn, calls |-> calls]

\* lines 96-105: the two except clauses of ingest
IngestExcept(e, conn, calls) ==
    IF e.outcome \in SqliteErrors
    THEN WithConn(Raise("sqlite3.Error", "SQLite error occurred: " \o e.msg), conn, calls)
    ELSE WithConn(Raise("Exception", "An unexpected error occurred: " \o e.msg), conn, calls)

\* lines 79-94: the try block of ingest; conn.close() is its third statement
IngestTry(store, query) ==
    LET c == connect(store)
    IN IF c.outcome /= "return" THEN IngestExcept(c, "none", <<"sqlite3.connect">>)
       ELSE LET t == execute_query(c.value, query)
            IN IF t.outcome /= "return"
               THEN IngestExcept(t, "open", <<"sqlite3.connect", "pd.read_sql_query">>)
               ELSE WithConn(t, "closed",
                             <<"sqlite3.connect", "pd.read_sql_query", "conn.close">>)

\* IngestQueryDatabase.ingest(db_path, query); store is what db_path names
\* (None: db_path is not a string)
ingest(store, query) ==
    IF store = None
    THEN WithConn(Raise("ValueError", "The 'db_path' must be a string."), "none", <<>>)
    ELSE IF ~isinstance(query, "str")
    THEN WithConn(Raise("ValueError", "The 'query' must be a string."), "none", <<>>)
    ELSE IF store = Absent
    THEN WithConn(Raise("FileNotFoundError", "The database file does not exist."), "none", <<>>)
    ELSE IngestTry(store, query)

----------------------------------------------------------------------------
(* config_yaml_reader *)

ConfigDir == "/workspaces/Chatbot-Restaurant/config"

\* a directory with its entries in the order os.listdir reports them
Dir(entries) == [type |-> "directory", entries |-> entries]

\* the stems of the file names below
Stems == {"config", "README", "config.yaml", "broken"}

\* str.endswith: the text is some prefix followed by the suffix
endswith(text, suffix) == \E prefix \in Stems : text = prefix \o suffix

\* os.path.join
path_join(dir, name) == dir \o "/" \o name

\* yaml.safe_load(f): the mapping the file holds, or yaml.YAMLError
safe_load(path) ==
    IF path = path_join(ConfigDir, "broken.yaml")
    THEN Raise("yaml.YAMLError", "while parsing a block mapping")
    ELSE Return(dict("loaded_from" :> PyStr(path)))

\* a result of config_yaml_reader with the path it handed to open
\* (None: open was not reached, or was handed None)
WithOpened(r, opened) ==
    [outcome |-> r.outcome, value |-> r.value, msg |-> r.msg, opened |-> opened]

\* lines 41-45: open(file_path) and yaml.safe_load; line 49-51: a YAML error
\* leaves as ValueError
LoadYaml(file_path) ==
    IF file_path = None
    THEN WithOpened(Raise("TypeError",
                          "expected str, bytes or os.PathLike object, not NoneType"), None)
    ELSE LET config == safe_load(file_path.val)
         IN IF config.outcome = "return" THEN WithOpened(config, file_path)
            ELSE WithOpened(Raise("ValueError", "Error parsing YAML file: " \o config.msg),
                            file_path)

\* lines 26-51.  The else of line 35 belongs to the if of line 30, inside the
\* loop: the first entry decides, and a listing without entries leaves
\* file_path as the caller passed it.
config_yaml_reader(file_path, directory) ==
    IF directory = Absent
    THEN WithOpened(Raise("FileNotFoundError", "[Errno 2] No such file or directory"), None)
    ELSE IF directory.entries = <<>> THEN LoadYaml(file_path)
    ELSE IF endswith(directory.entries[1], ".yaml")
    THEN LoadYaml(PyStr(path_join(ConfigDir, directory.entries[1])))
    ELSE WithOpened(Raise("FileNotFoundError",
                          "No YAML configuration file found in the directory."), None)

----------------------------------------------------------------------------
(* src/api/app.py: the module-level pipeline, one action per statement *)

NoCall == [op |-> "none"]

\* a request no client has sent yet
Requests == 1..MaxRequests
NotSent == [at |-> "not_sent", query |-> None]

Init ==
    /\ pc = "ingest_faqs"
    /\ db \in Databases \cup {Absent}
    /\ CONFIGRATION \in Configs
    /\ faissTie \in {"low", "high"}
    /\ FAQsDF = None /\ MENUITEMsDF = None
    /\ FAQs_E = None /\ MENUITEMs_E = None
    /\ FAQsIndex = None /\ MENUITEMsIndex = None
    /\ RETRIEVE = None
    /\ requests = [id \in Requests |-> NotSent]
    /\ call = NoCall

\* A module-level statement that raises ends the import: the process never serves.
Crash(stmt, r) ==
    /\ pc' = "crashed"
    /\ call' = [op |-> stmt, outcome |-> r.outcome, msg |-> r.msg]

\* line 36
IngestFAQs ==
    /\ pc = "ingest_faqs"
    /\ LET r == ingest(db, CONFIGRATION.FAQsQ)
       IN /\ FAQsDF' = r.value
          /\ IF r.outcome = "return" THEN pc' = "ingest_menu" /\ call' = call
                                     ELSE Crash("ingest_faqs", r)
    /\ UNCHANGED <<db, CONFIGRATION, faissTie, requests, MENUITEMsDF, FAQs_E, MENUITEMs_E,
                   FAQsIndex, MENUITEMsIndex, RETRIEVE>>

\* line 37
IngestMenu ==
    /\ pc = "ingest_menu"
    /\ LET r == ingest(db, CONFIGRATION.MENUITEMsQ)
       IN /\ MENUITEMsDF' = r.value
          /\ IF r.outcome = "return" THEN pc' = "dedup_faqs" /\ call' = call
                                     ELSE Crash("ingest_menu", r)
    /\ UNCHANGED <<db, CONFIGRATION, faissTie, requests, FAQsDF, FAQs_E, MENUITEMs_E,
                   FAQsIndex, MENUITEMsIndex, RETRIEVE>>

\* line 40
DedupFAQs ==
    /\ pc = "dedup_faqs"
    /\ FAQsDF' = drop_duplicates(FAQsDF)
    /\ pc' = "dedup_menu"
    /\ UNCHANGED <<db, CONFIGRATION, faissTie, requests, MENUITEMsDF, FAQs_E, MENUITEMs_E,
                   FAQsIndex, MENUITEMsIndex, RETRIEVE, call>>

\* line 41
DedupMenu ==
    /\ pc = "dedup_menu"
    /\ MENUITEMsDF' = drop_duplicates(MENUITEMsDF)
    /\ pc' = "combine_faqs"
    /\ UNCHANGED <<db, CONFIGRATION, faissTie, requests, FAQsDF, FAQs_E, MENUITEMs_E,
                   FAQsIndex, MENUITEMsIndex, RETRIEVE, call>>

\* line 44: FAQsDF_c is bound to the object FAQsDF names
CombineFAQs ==
    /\ pc = "combine_faqs"
    /\ LET r == combined(CONFIGRATION.columns_faqs, FAQsDF)
       IN /\ FAQsDF' = r.df
          /\ IF r.outcome = "return" THEN pc' = "combine_menu" /\ call' = call
                                     ELSE Crash("combine_faqs", r)
    /\ UNCHANGED <<db, CONFIGRATION, faissTie, requests, MENUITEMsDF, FAQs_E, MENUITEMs_E,
                   FAQsIndex, MENUITEMsIndex, RETRIEVE>>

\* line 45
CombineMenu ==
    /\ pc = "combine_menu"
    /\ LET r == combined(CONFIGRATION.columns_menuitems, MENUITEMsDF)
       IN /\ MENUITEMsDF' = r.df
          /\ IF r.outcome = "return" THEN pc' = "embed_faqs" /\ call' = call
                                     ELSE Crash("combine_menu", r)
    /\ UNCHANGED <<db, CONFIGRATION, faissTie, requests, FAQsDF, FAQs_E, MENUITEMs_E,
                   FAQsIndex, MENUITEMsIndex, RETRIEVE>>

\* line 48: column defaults to "combined"
EmbedFAQs ==
    /\ pc = "embed_faqs"
    /\ LET r == embedded(EMBEDDINGMODEL, FAQsDF, PyStr("combined"))
       IN /\ FAQsDF' = r.df
          /\ FAQs_E' = r.value
          /\ IF r.outcome = "return" THEN pc' = "embed_menu" /\ call' = call
                                     ELSE Crash("embed_faqs", r)
    /\ UNCHANGED <<db, CONFIGRATION, faissTie, requests, MENUITEMsDF, MENUITEMs_E,
                   FAQsIndex, MENUITEMsIndex, RETRIEVE>>

\* line 49
EmbedMenu ==
    /\ pc = "embed_menu"
    /\ LET r == embedded(EMBEDDINGMODEL, MENUITEMsDF, PyStr("combined"))
       IN /\ MENUITEMsDF' = r.df
          /\ MENUITEMs_E' = r.value
          /\ IF r.outcome = "return" THEN pc' = "index_faqs" /\ call' = call
                                     ELSE Crash("embed_menu", r)
    /\ UNCHANGED <<db, CONFIGRATION, faissTie, requests, FAQsDF, FAQs_E,
                   FAQsIndex, MENUITEMsIndex, RETRIEVE>>

\* line 52
IndexFAQs ==
    /\ pc = "index_faqs"
    /\ LET r == create_faiss_index(FAQs_E)
       IN /\ FAQsIndex' = r.value
          /\ IF r.outcome = "return" THEN pc' = "index_menu" /\ call' = call
                                     ELSE Crash("index_faqs", r)
    /\ UNCHANGED <<db, CONFIGRATION, faissTie, requests, FAQsDF, MENUITEMsDF, FAQs_E, MENUITEMs_E,
                   MENUITEMsIndex, RETRIEVE>>

\* line 53
IndexMenu ==
    /\ pc = "index_menu"
    /\ LET r == create_faiss_index(MENUITEMs_E)
       IN /\ MENUITEMsIndex' = r.value
          /\ IF r.outcome = "return" THEN pc' = "serving" /\ call' = call
                                     ELSE Crash("index_menu", r)
    /\ UNCHANGED <<db, CONFIGRATION, faissTie, requests, FAQsDF, MENUITEMsDF, FAQs_E, MENUITEMs_E,
                   FAQsIndex, RETRIEVE>>

----------------------------------------------------------------------------
(* src/api/app.py: main and the /chat handler *)

Knobs ==
    [max_length |-> CONFIGRATION.max_length, do_sample |-> CONFIGRATION.do_sample,
     temperature |-> CONFIGRATION.temperature, top_p |-> CONFIGRATION.top_p,
     top_k |-> CONFIGRATION.top_k]

\* lines 57-63
MainRetrieve(query) ==
    retrieve(query, EMBEDDINGMODEL, FAQsIndex, MENUITEMsIndex, FAQsDF, MENUITEMsDF,
             CONFIGRATION.top_k_results)

\* lines 66-73: generate is called without a tokenizer argument
MainGenerate(query, retriever) ==
    generate(query, retriever, FLANMODEL, Missing, Knobs)

\* lines 55-74 once retrieve has answered r: an exception of either call
\* leaves main
MainAfterRetrieve(query, r) ==
    IF r.outcome /= "return" THEN r ELSE MainGenerate(query, r.value)

main(query) == MainAfterRetrieve(query, MainRetrieve(query))

\* The form field of a request is always text.
Queries ==
    {"What is the menu?", "hours 9to5", "wifi yes", "WIFI yes", "soup lentil", "cake date"}

\* Chat adding the vector of the query to the FAQ index
Chat_caching(q) ==
    /\ pc = "serving"
    /\ LET r == MainRetrieve(PyStr(q))
           response == MainAfterRetrieve(PyStr(q), r)
       IN /\ RETRIEVE' = r
          /\ call' = [op |-> "chat", args |-> [query |-> PyStr(q)],
                      outcome |-> response.outcome, value |-> response.value,
                      msg |-> response.msg,
                      status |-> IF response.outcome = "return" THEN 200 ELSE 500]
    /\ FAQsIndex' = IndexFlatL2(FAQsIndex.d,
                        Append(FAQsIndex.xb, encode(EMBEDDINGMODEL, q).value))
    /\ UNCHANGED <<pc, db, CONFIGRATION, faissTie, requests, FAQsDF, MENUITEMsDF, FAQs_E,
                   MENUITEMs_E, MENUITEMsIndex>>

\* Chat ingesting the FAQ table again before it retrieves
Chat_reingest(q) ==
    /\ pc = "serving"
    /\ LET r == MainRetrieve(PyStr(q))
           response == MainAfterRetrieve(PyStr(q), r)
       IN /\ RETRIEVE' = r
          /\ call' = [op |-> "chat", args |-> [query |-> PyStr(q)],
                      outcome |-> response.outcome, value |-> response.value,
                      msg |-> response.msg,
                      status |-> IF response.outcome = "return" THEN 200 ELSE 500]
    /\ FAQsDF' = ingest(db, CONFIGRATION.FAQsQ).value
    /\ UNCHANGED <<pc, db, CONFIGRATION, faissTie, requests, MENUITEMsDF, FAQs_E,
                   MENUITEMs_E, FAQsIndex, MENUITEMsIndex>>

\* lines 86-97: POST /chat, the handler run from its first statement to its
\* return.  An exception leaving the handler is answered by the framework
\* with status 500.
Chat(q) ==
    /\ pc = "serving"
    /\ LET r == MainRetrieve(PyStr(q))
           response == MainAfterRetrieve(PyStr(q), r)
       IN /\ RETRIEVE' = r
          /\ call' = [op |-> "chat", args |-> [query |-> PyStr(q)],
                      outcome |-> response.outcome, value |-> response.value,
                      msg |-> response.msg,
                      status |-> IF response.outcome = "return" THEN 200 ELSE 500]
    /\ UNCHANGED <<pc, db, CONFIGRATION, faissTie, requests, FAQsDF, MENUITEMsDF, FAQs_E,
                   MENUITEMs_E, FAQsIndex, MENUITEMsIndex>>

\* the serving process
Next ==
    \/ IngestFAQs \/ IngestMenu
    \/ DedupFAQs \/ DedupMenu
    \/ CombineFAQs \/ CombineMenu
    \/ EmbedFAQs \/ EmbedMenu
    \/ IndexFAQs \/ IndexMenu
    \/ \E q \in Queries : Chat(q)

Spec == Init /\ [][Next]_vars

----------------------------------------------------------------------------
(* The serving process once the module is imported: /chat requests in      *)
(* flight on the event loop of one worker.  chat is a coroutine function   *)
(* (async def, line 87) and neither it nor main awaits anything, so the    *)
(* loop runs a handler from its first statement to its return before it    *)
(* runs anything else.                                                     *)

\* lines 36-53 run on a store: what the module-level names are bound to
\* when the import succeeds
Startup(store, config) ==
    LET fr == ingest(store, config.FAQsQ)
        mr == ingest(store, config.MENUITEMsQ)
        f0 == drop_duplicates(fr.value)
        m0 == drop_duplicates(mr.value)
        fc == combined(config.columns_faqs, f0)
        mc == combined(config.columns_menuitems, m0)
        fe == embedded(EMBEDDINGMODEL, fc.df, PyStr("combined"))
        me == embedded(EMBEDDINGMODEL, mc.df, PyStr("combined"))
        fi == create_faiss_index(fe.value)
        mi == create_faiss_index(me.value)
    IN [ok |-> /\ fr.outcome = "return" /\ mr.outcome = "return"
               /\ \A r \in {fc, mc, fe, me, fi, mi} : r.outcome = "return",
        FAQsDF |-> fe.df, MENUITEMsDF |-> me.df,
        FAQs_E |-> fe.value, MENUITEMs_E |-> me.value,
        FAQsIndex |-> fi.value, MENUITEMsIndex |-> mi.value]

\* stores with one row per table
ServeStores == {d \in Databases : Len(d.faqs) = 1 /\ Len(d.menu_items) = 1}

ServeQueries == {"What is the menu?", "wifi yes"}

ServeInit ==
    /\ pc = "serving"
    /\ db \in ServeStores
    /\ CONFIGRATION \in Configs
    /\ faissTie \in {"low", "high"}
    /\ LET up == Startup(db, CONFIGRATION)
       IN /\ up.ok
          /\ FAQsDF = up.FAQsDF /\ MENUITEMsDF = up.MENUITEMsDF
          /\ FAQs_E = up.FAQs_E /\ MENUITEMs_E = up.MENUITEMs_E
          /\ FAQsIndex = up.FAQsIndex /\ MENUITEMsIndex = up.MENUITEMsIndex
    /\ RETRIEVE = None
    /\ requests = [id \in Requests |-> NotSent]
    /\ call = NoCall

\* a request whose handler has started and not yet returned or raised
InHandler(id) == requests[id].at \in {"main_retrieve", "main_generate"}

\* the event loop is running no handler
LoopIdle == \A id \in Requests : ~InHandler(id)

\* A client sends POST /chat; the server schedules the handler coroutine.
Post(id, q) ==
    /\ pc = "serving"
    /\ requests[id].at = "not_sent"
    /\ requests' = [requests EXCEPT ![id] = [at |-> "posted", query |-> PyStr(q)]]
    /\ UNCHANGED <<pc, db, CONFIGRATION, faissTie, FAQsDF, MENUITEMsDF, FAQs_E,
                   MENUITEMs_E, FAQsIndex, MENUITEMsIndex, RETRIEVE, call>>

\* ChatBegin as it would be were chat a plain function, which the framework
\* runs on a thread pool
ChatBegin_threadpool(id) ==
    /\ pc = "serving"
    /\ requests[id].at = "posted"
    /\ requests' = [requests EXCEPT ![id].at = "main_retrieve"]
    /\ UNCHANGED <<pc, db, CONFIGRATION, faissTie, FAQsDF, MENUITEMsDF, FAQs_E,
                   MENUITEMs_E, FAQsIndex, MENUITEMsIndex, RETRIEVE, call>>

\* lines 86-89: the loop, running nothing else, starts the handler, which
\* enters main
ChatBegin(id) ==
    /\ pc = "serving"
    /\ requests[id].at = "posted"
    /\ LoopIdle
    /\ requests' = [requests EXCEPT ![id].at = "main_retrieve"]
    /\ UNCHANGED <<pc, db, CONFIGRATION, faissTie, FAQsDF, MENUITEMsDF, FAQs_E,
                   MENUITEMs_E, FAQsIndex, MENUITEMsIndex, RETRIEVE, call>>

\* what the handler of a request answers once main has returned or raised
Answered(request, response) ==
    [op |-> "chat", args |-> [query |-> request.query],
     outcome |-> response.outcome, value |-> response.value, msg |-> response.msg,
     status |-> IF response.outcome = "return" THEN 200 ELSE 500]

\* lines 57-63
ChatMainRetrieve(id) ==
    /\ pc = "serving"
    /\ requests[id].at = "main_retrieve"
    /\ LET r == MainRetrieve(requests[id].query)
       IN /\ RETRIEVE' = r
          /\ IF r.outcome = "return"
             THEN /\ requests' = [requests EXCEPT ![id].at = "main_generate"]
                  /\ call' = call
             ELSE /\ requests' = [requests EXCEPT ![id].at = "answered"]
                  /\ call' = Answered(requests[id], r)
    /\ UNCHANGED <<pc, db, CONFIGRATION, faissTie, FAQsDF, MENUITEMsDF, FAQs_E,
                   MENUITEMs_E, FAQsIndex, MENUITEMsIndex>>

\* lines 66-74 and 90-97
ChatMainGenerate(id) ==
    /\ pc = "serving"
    /\ requests[id].at = "main_generate"
    /\ requests' = [requests EXCEPT ![id].at = "answered"]
    /\ call' = Answered(requests[id], MainGenerate(requests[id].query, RETRIEVE.value))
    /\ UNCHANGED <<pc, db, CONFIGRATION, faissTie, FAQsDF, MENUITEMsDF, FAQs_E,
                   MENUITEMs_E, FAQsIndex, MENUITEMsIndex, RETRIEVE>>

ServeNext ==
    \/ \E id \in Requests, q \in ServeQueries : Post(id, q)
    \/ \E id \in Requests : ChatBegin(id)
    \/ \E id \in Requests : ChatMainRetrieve(id)
    \/ \E id \in Requests : ChatMainGenerate(id)

ServeSpec == ServeInit /\ [][ServeNext]_vars

----------------------------------------------------------------------------
(* Direct calls of the components, one call per run, on arguments drawn    *)
(* from bounded sets                                                       *)

\* An (index, table) pair built as the fixture of tests/test_chatbot.py
\* builds it: de-duplicate, combine, embed, index.  embedded cannot stack
\* zero rows, so the pair of an empty table holds an index nothing was
\* added to (retrieval.py:164 builds its indices that way).
BuildPair(columns, combine, rows) ==
    LET c == combined(combine, drop_duplicates(read_sql_query(columns, rows)))
        e == embedded(EMBEDDINGMODEL, c.df, PyStr("combined"))
    IN IF rows = <<>>
       THEN [df |-> c.df, index |-> IndexFlatL2(EmbDim, <<>>)]
       ELSE [df |-> e.df, index |-> create_faiss_index(e.value).value]

FaqPairs ==
    {BuildPair(FaqColumns, PyList(<<"question", "answer">>), rows) :
        rows \in SeqsUpTo(FaqPool, MaxFaqRows)}

\* (a direct call takes tables of up to MaxFaqRows rows for either source)
MenuPairs ==
    {BuildPair(MenuColumns, PyList(<<"name", "description">>), rows) :
        rows \in SeqsUpTo(MenuPool, MaxFaqRows)}

\* Pairs a caller can get wrong: an argument of the wrong class, a table
\* shorter than its index, an index built with a model of another width.
BrokenPairs(pair) ==
    { [df |-> None, index |-> pair.index],
      [df |-> pair.df, index |-> None],
      [df |-> DataFrame(pair.df.columns, <<>>, <<>>), index |-> pair.index],
      [df |-> pair.df,
       index |-> IndexFlatL2(EmbDim + 1,
                     [i \in 1..Len(pair.index.xb) |-> Append(pair.index.xb[i], 0)])] }

UnitFaqPairs ==
    FaqPairs \cup BrokenPairs(CHOOSE p \in FaqPairs : len(p.df) = 2 /\ p.df.index = <<0, 1>>
                                  /\ str(p.df.rows[1]["question"]) = "hours"
                                  /\ str(p.df.rows[2]["question"]) = "wifi")

UnitMenuPairs ==
    MenuPairs \cup BrokenPairs(CHOOSE p \in MenuPairs : len(p.df) = 1
                                  /\ str(p.df.rows[1]["name"]) = "soup")

UnitQueries == {PyStr("What is the menu?"), PyStr("wifi yes"), PyStr("cake date"), None}

UnitModels ==
    {EMBEDDINGMODEL, SentenceTransformer(EmbDim, TRUE),
     SentenceTransformer(EmbDim + 1, FALSE), None}

UnitTopK == {PyInt(k) : k \in -1..MaxTopK} \cup {PyFloat("2.0"), PyStr("3"), None}

UnitColumns ==
    {PyList(<<"question", "answer">>), PyList(<<"answer", "question">>),
     PyList(<<"answer">>), PyList(<<"answer", "answer">>),
     PyList(<<"question", "category">>), PyList(<<"category">>),
     PyStr("question"), None}

\* rows with an INTEGER and with a NULL cell
MixedPool ==
    FaqPool \cup { [question |-> Txt("seats"), answer |-> Num(40)],
                   [question |-> Txt("patio"), answer |-> Null] }

FreshTables == {read_sql_query(FaqColumns, rows) : rows \in SeqsUpTo(MixedPool, MaxFaqRows)}

\* tables as ingested, and tables an earlier combined call has been applied to
UnitTables ==
    FreshTables
    \cup {combined(PyList(<<"question", "answer">>), df).df : df \in FreshTables}
    \cup {None, PyList(<<>>)}

UnitInit ==
    /\ pc = "unit"
    /\ db = SqliteFile(<<>>, <<>>)
    /\ CONFIGRATION \in {c \in Configs : c.top_k_results = PyInt(MaxTopK)}
    /\ faissTie \in {"low", "high"}
    /\ FAQsDF = None /\ MENUITEMsDF = None
    /\ FAQs_E = None /\ MENUITEMs_E = None
    /\ FAQsIndex = None /\ MENUITEMsIndex = None
    /\ RETRIEVE = None
    /\ requests = [id \in Requests |-> NotSent]
    /\ call = NoCall

CallRetrieve ==
    /\ pc = "unit" /\ call = NoCall
    /\ \E query \in UnitQueries, embedding_model \in UnitModels,
          p1 \in UnitFaqPairs, p2 \in UnitMenuPairs, top_k \in UnitTopK :
          LET r == retrieve(query, embedding_model, p1.index, p2.index,
                            p1.df, p2.df, top_k)
          IN call' = [op |-> "retrieve",
                      args |-> [query |-> query, embedding_model |-> embedding_model,
                                index_1 |-> p1.index, index_2 |-> p2.index,
                                df_index_1 |-> p1.df, df_index_2 |-> p2.df,
                                top_k |-> top_k],
                      outcome |-> r.outcome, value |-> r.value, msg |-> r.msg,
                      calls |-> r.calls]
    /\ UNCHANGED <<pc, db, CONFIGRATION, faissTie, requests, FAQsDF, MENUITEMsDF, FAQs_E,
                   MENUITEMs_E, FAQsIndex, MENUITEMsIndex, RETRIEVE>>

CallCombined ==
    /\ pc = "unit" /\ call = NoCall
    /\ \E columns \in UnitColumns, df \in UnitTables :
          LET r == combined(columns, df)
          IN call' = [op |-> "combined", args |-> [columns |-> columns, df |-> df],
                      outcome |-> r.outcome, value |-> r.value, msg |-> r.msg]
    /\ UNCHANGED <<pc, db, CONFIGRATION, faissTie, requests, FAQsDF, MENUITEMsDF, FAQs_E,
                   MENUITEMs_E, FAQsIndex, MENUITEMsIndex, RETRIEVE>>

\* tables ready for embedded, as combined leaves them
UnitCombinedTables ==
    {combined(PyList(<<"question", "answer">>), read_sql_query(FaqColumns, rows)).df :
        rows \in SeqsUpTo(FaqPool, MaxFaqRows)}
    \cup {None}

UnitEmbedColumns == {PyStr("combined"), PyStr("question"), PyStr("category"), PyInt(0), None}

CallEmbedded ==
    /\ pc = "unit" /\ call = NoCall
    /\ \E embedding_model \in UnitModels, df \in UnitCombinedTables,
          column \in UnitEmbedColumns :
          LET r == embedded(embedding_model, df, column)
          IN call' = [op |-> "embedded",
                      args |-> [embedding_model |-> embedding_model, df |-> df,
                                column |-> column],
                      outcome |-> r.outcome, value |-> r.value, msg |-> r.msg,
                      calls |-> r.calls, df |-> r.df]
    /\ UNCHANGED <<pc, db, CONFIGRATION, faissTie, requests, FAQsDF, MENUITEMsDF, FAQs_E,
                   MENUITEMs_E, FAQsIndex, MENUITEMsIndex, RETRIEVE>>

\* Retrieval results as retrieve returns them, and dicts a caller builds by
\* hand: lists left empty, keys left out, a record without the expected keys.
UnitRetrievers ==
    {retrieve(PyStr("What is the menu?"), EMBEDDINGMODEL, p1.index, p2.index,
              p1.df, p2.df, PyInt(k)).value :
        p1 \in {p \in FaqPairs : len(p.df) >= 1}, p2 \in {p \in MenuPairs : len(p.df) >= 1},
        k \in 1..MaxTopK}
    \cup {dict(("query" :> PyStr("What is the menu?")) @@ ("_1_result" :> f)
               @@ ("_2_result" :> m)) :
            f \in SeqsUpTo(FaqPool, 1), m \in SeqsUpTo(MenuPool, 1)}
    \cup {dict("query" :> PyStr("What is the menu?")),
          dict(("query" :> PyStr("What is the menu?"))
               @@ ("_1_result" :> <<[question |-> Txt("hours")]>>)),
          None}

\* Objects that pass isinstance(_, AutoModelForSeq2SeqLM) and
\* isinstance(_, AutoTokenizer), the pipeline FlanT5Load.load returns, the
\* tokenizer class from_pretrained returns, and a tokenizer not passed.
UnitGenerateModels ==
    {[type |-> "AutoModelForSeq2SeqLM", raises |-> FALSE],
     [type |-> "AutoModelForSeq2SeqLM", raises |-> TRUE], FLANMODEL, None}

UnitTokenizers ==
    {[type |-> "AutoTokenizer", raises |-> FALSE], [type |-> "AutoTokenizer", raises |-> TRUE],
     [type |-> "T5TokenizerFast", raises |-> FALSE], Missing}

UnitGenerateQueries == {PyStr("What is the menu?"), PyStr("wifi yes"), None}

CallGenerate ==
    /\ pc = "unit" /\ call = NoCall
    /\ \E query \in UnitGenerateQueries, retriever \in UnitRetrievers,
          generate_model \in UnitGenerateModels, tokenizer \in UnitTokenizers :
          LET r == generate(query, retriever, generate_model, tokenizer, Knobs)
          IN call' = [op |-> "generate",
                      args |-> [query |-> query, retriever |-> retriever,
                                generate_model |-> generate_model,
                                tokenizer |-> tokenizer, knobs |-> Knobs],
                      outcome |-> r.outcome, value |-> r.value, msg |-> r.msg,
                      calls |-> r.calls]
    /\ UNCHANGED <<pc, db, CONFIGRATION, faissTie, requests, FAQsDF, MENUITEMsDF, FAQs_E,
                   MENUITEMs_E, FAQsIndex, MENUITEMsIndex, RETRIEVE>>

\* Arrays a caller can hand to create_faiss_index: the matrices embedded
\* returns, a matrix of no rows, one vector (1-D), a stack of one matrix (3-D).
UnitMatrices ==
    {embedded(m, df, PyStr("combined")).value :
        m \in {EMBEDDINGMODEL, SentenceTransformer(EmbDim + 1, FALSE)},
        df \in UnitCombinedTables \ {None, combined(PyList(<<"question", "answer">>),
                                                    read_sql_query(FaqColumns, <<>>)).df}}
    \cup {ndarray(<<0, EmbDim>>, <<>>)}

UnitVectors == {ndarray(<<Len(a.data[1])>>, a.data[1]) : a \in {m \in UnitMatrices : m.shape[1] > 0}}

UnitStacks == {ndarray(<<1, a.shape[1], a.shape[2]>>, <<a.data>>) : a \in UnitMatrices}

UnitNonArrays == {PyList(<<>>), None}

CreateIndexCall(embedding_array) ==
    LET r == create_faiss_index(embedding_array)
    IN call' = [op |-> "create_faiss_index", args |-> [embedding_array |-> embedding_array],
                outcome |-> r.outcome, value |-> r.value, msg |-> r.msg]

CallCreateIndex ==
    /\ pc = "unit" /\ call = NoCall
    /\ \/ \E a \in UnitMatrices : CreateIndexCall(a)
       \/ \E a \in UnitVectors : CreateIndexCall(a)
       \/ \E a \in UnitStacks : CreateIndexCall(a)
       \/ \E a \in UnitNonArrays : CreateIndexCall(a)
    /\ UNCHANGED <<pc, db, CONFIGRATION, faissTie, requests, FAQsDF, MENUITEMsDF, FAQs_E,
                   MENUITEMs_E, FAQsIndex, MENUITEMsIndex, RETRIEVE>>

\* What a direct caller of ingest can pass: db_path naming a database, a
\* missing file, a directory, a file of another format, or no string at all;
\* a query on a table the database has or has not, or no string at all.
UnitStores ==
    {SqliteFile(f, m) : f \in SeqsUpTo(FaqPool, 1), m \in SeqsUpTo(MenuPool, 1)}
    \cup {Absent, Directory, TextFile, None}

UnitSql == {PyStr("faqs"), PyStr("menu_items"), PyStr("orders"), None}

CallIngest ==
    /\ pc = "unit" /\ call = NoCall
    /\ \E store \in UnitStores, query \in UnitSql :
          LET r == ingest(store, query)
          IN call' = [op |-> "ingest", args |-> [db_path |-> store, query |-> query],
                      outcome |-> r.outcome, value |-> r.value, msg |-> r.msg,
                      conn |-> r.conn, calls |-> r.calls]
    /\ UNCHANGED <<pc, db, CONFIGRATION, faissTie, requests, FAQsDF, MENUITEMsDF, FAQs_E,
                   MENUITEMs_E, FAQsIndex, MENUITEMsIndex, RETRIEVE>>

\* Configuration directories: every listing of up to MaxListing different
\* entries in every order, and a missing directory.
FileNames == {"config.yaml", "README.md", "config.yaml.bak", "broken.yaml"}

UnitDirs ==
    {Dir(l) : l \in {e \in SeqsUpTo(FileNames, MaxListing) :
                        \A i, j \in 1..Len(e) : i /= j => e[i] /= e[j]}}
    \cup {Absent}

\* Config(None) passes no path
UnitConfigPaths == {None, PyStr(path_join(ConfigDir, "config.yaml"))}

CallConfigReader ==
    /\ pc = "unit" /\ call = NoCall
    /\ \E file_path \in UnitConfigPaths, directory \in UnitDirs :
          LET r == config_yaml_reader(file_path, directory)
          IN call' = [op |-> "config_yaml_reader",
                      args |-> [file_path |-> file_path, directory |-> directory],
                      outcome |-> r.outcome, value |-> r.value, msg |-> r.msg,
                      opened |-> r.opened]
    /\ UNCHANGED <<pc, db, CONFIGRATION, faissTie, requests, FAQsDF, MENUITEMsDF, FAQs_E,
                   MENUITEMs_E, FAQsIndex, MENUITEMsIndex, RETRIEVE>>

UnitNext ==
    \/ CallRetrieve \/ CallCombined \/ CallEmbedded \/ CallGenerate \/ CallCreateIndex
    \/ CallIngest \/ CallConfigReader

UnitSpec == UnitInit /\ [][UnitNext]_vars

----------------------------------------------------------------------------
(* Properties *)

Min(a, b) == IF a < b THEN a ELSE b

\* the last direct retrieve call returned a result
Retrieved == call.op = "retrieve" /\ call.outcome = "return"

\* the arguments of the last direct retrieve call pass the type validation
\* of every argument but top_k
OthersValid ==
    /\ isinstance(call.args.query, "str")
    /\ isinstance(call.args.embedding_model, "SentenceTransformer")
    /\ isinstance(call.args.index_1, "IndexFlatL2")
    /\ isinstance(call.args.index_2, "IndexFlatL2")
    /\ isinstance(call.args.df_index_1, "DataFrame")
    /\ isinstance(call.args.df_index_2, "DataFrame")

TopKValid == isinstance(call.args.top_k, "int") /\ call.args.top_k.num > 0

\* the query vector and the labels each index search reported in the
\* retrieval of the last /chat request
ChatVector == encode(EMBEDDINGMODEL, call.args.query.val).value
ChatLabels1 == search(FAQsIndex, ChatVector, CONFIGRATION.top_k_results.num).value
ChatLabels2 == search(MENUITEMsIndex, ChatVector, CONFIGRATION.top_k_results.num).value

ChatRetrieved == pc = "serving" /\ call.op = "chat" /\ RETRIEVE.outcome = "return"

\* C1: a successful retrieve with top_k = K over a source of M rows returns
\* exactly min(K, M) records for that source (the M available rows when K > M).
C1_TopKBound ==
    ChatRetrieved =>
        /\ Len(RETRIEVE.value.val["_1_result"])
             = Min(CONFIGRATION.top_k_results.num, len(FAQsDF))
        /\ Len(RETRIEVE.value.val["_2_result"])
             = Min(CONFIGRATION.top_k_results.num, len(MENUITEMsDF))

\* the combined text of a table row, recomputed from its source columns
CombinedText(columns, row) == str(CombinedValue(columns.items, row))

\* index position i holds the embedding of the combined text of row i
Corresponds(index, df, columns) ==
    /\ ntotal(index) = len(df)
    /\ \A i \in 1..len(df) :
          /\ df.rows[i]["combined"] = CombinedValue(columns.items, df.rows[i])
          /\ index.xb[i] = encode(EMBEDDINGMODEL, CombinedText(columns, df.rows[i])).value

\* every reported neighbour position is projected onto the row at that position
ByPosition(records, labels, df) ==
    /\ Len(records) = Len(labels)
    /\ \A j \in 1..Len(labels) :
          labels[j] >= 0 => records[j] = df.rows[labels[j] + 1]

\* C2: once an index is built, and from then on, position i of each index
\* holds the embedding of the combined text of the i-th row of the table
\* passed to retrieve, the table is the de-duplicated ingested table in its
\* order, and every retrieval succeeds and projects a neighbour position p
\* onto the p-th row by position, whatever the row labels are.
C2_IndexRowCorrespondence ==
    /\ FAQsIndex /= None =>
          /\ Corresponds(FAQsIndex, FAQsDF, CONFIGRATION.columns_faqs)
          /\ FAQsDF.index = drop_duplicates(ingest(db, PyStr("faqs")).value).index
          /\ \A i \in 1..len(FAQsDF) : \A c \in Range(FaqColumns) :
                FAQsDF.rows[i][c] = drop_duplicates(ingest(db, PyStr("faqs")).value).rows[i][c]
    /\ MENUITEMsIndex /= None =>
          /\ Corresponds(MENUITEMsIndex, MENUITEMsDF, CONFIGRATION.columns_menuitems)
          /\ MENUITEMsDF.index = drop_duplicates(ingest(db, PyStr("menu_items")).value).index
          /\ \A i \in 1..len(MENUITEMsDF) : \A c \in Range(MenuColumns) :
                MENUITEMsDF.rows[i][c]
                  = drop_duplicates(ingest(db, PyStr("menu_items")).value).rows[i][c]
    /\ (pc = "serving" /\ call.op = "chat") =>
          /\ RETRIEVE.outcome = "return"
          /\ ByPosition(RETRIEVE.value.val["_1_result"], ChatLabels1, FAQsDF)
          /\ ByPosition(RETRIEVE.value.val["_2_result"], ChatLabels2, MENUITEMsDF)

\* C2 witness: a query was retrieved over FAQ rows that de-duplication left
\* with the non-contiguous labels 0, 2, and the row at position 1 (label 2)
\* was returned first.
C2_Witness ==
    /\ ChatRetrieved
    /\ FAQsDF.index = <<0, 2>>
    /\ ChatLabels1[1] = 1
    /\ RETRIEVE.value.val["_1_result"][1] = FAQsDF.rows[2]

\* C3: every /chat request is answered with status 200 and main returns the
\* answer as a string (the embedding, search and generation functions of
\* this model never fail in the serving process).
C3_ChatAnswers ==
    call.op = "chat" =>
        /\ call.outcome = "return"
        /\ isinstance(call.value, "str")
        /\ call.status = 200

\* the distance of a result record from the query, by its stored embedding
RecordDistance(x, rec) == L2(x, rec["combined_embedding"].x)

\* the records are the rows at the reported positions, nearest first
NearestFirst(records, labels, df, x) ==
    /\ Len(records) = Len(labels)
    /\ \A j \in 1..Len(labels) :
          /\ labels[j] \in 0..(len(df) - 1)
          /\ records[j] = df.rows[labels[j] + 1]
    /\ \A j \in 2..Len(records) :
          RecordDistance(x, records[j - 1]) <= RecordDistance(x, records[j])

\* C4: in a successful retrieval each source's list holds, for every j, the
\* table row at the j-th neighbour position the index search reported, in
\* ascending distance from the query.
C4_NearestFirst ==
    ChatRetrieved =>
        /\ NearestFirst(RETRIEVE.value.val["_1_result"], ChatLabels1, FAQsDF, ChatVector)
        /\ NearestFirst(RETRIEVE.value.val["_2_result"], ChatLabels2, MENUITEMsDF,
                        ChatVector)

\* a source of the last direct call whose index and table agree:
\* same width as the query vector, as many vectors as rows
Consistent(index, df) ==
    index.d = call.args.embedding_model.dim /\ ntotal(index) = len(df)

\* C5: retrieve on otherwise valid inputs of which one source is empty (no
\* rows, no vectors) succeeds, with the empty list for the empty source.
C5_EmptySource ==
    (/\ call.op = "retrieve" /\ OthersValid /\ TopKValid
     /\ ~call.args.embedding_model.raises
     /\ Consistent(call.args.index_1, call.args.df_index_1)
     /\ Consistent(call.args.index_2, call.args.df_index_2))
    =>
        /\ len(call.args.df_index_1) = 0 =>
              call.outcome = "return" /\ call.value.val["_1_result"] = <<>>
        /\ len(call.args.df_index_2) = 0 =>
              call.outcome = "return" /\ call.value.val["_2_result"] = <<>>

\* C6: a successful retrieve returns a dict with exactly the keys query,
\* _1_result and _2_result; query is the input query unchanged and each
\* list has at most top_k records.
C6_ResultShape ==
    Retrieved =>
        /\ isinstance(call.value, "dict")
        /\ DOMAIN call.value.val = {"query", "_1_result", "_2_result"}
        /\ call.value.val["query"] = call.args.query
        /\ Len(call.value.val["_1_result"]) <= call.args.top_k.num
        /\ Len(call.value.val["_2_result"]) <= call.args.top_k.num

\* C6 witness: a retrieve with the largest top_k over two non-empty sources
\* returned.
C6_Witness ==
    /\ Retrieved
    /\ call.args.top_k.num = MaxTopK
    /\ len(call.args.df_index_1) >= 2
    /\ len(call.args.df_index_2) >= 1
    /\ Len(call.value.val["_1_result"]) = MaxTopK

\* the combined texts of two rows get the same vector
SameEmbedding(columns, r1, r2) ==
    encode(EMBEDDINGMODEL, CombinedText(columns, r1)).value
      = encode(EMBEDDINGMODEL, CombinedText(columns, r2)).value

\* searching the index with the embedding of row i's own text reports
\* position i first, or the position of a row with the identical embedding
SelfNearest(index, df, columns) ==
    \A i \in 1..len(df) :
       LET x == encode(EMBEDDINGMODEL, CombinedText(columns, df.rows[i])).value
           first == search(index, x, 1).value[1]
       IN /\ first \in 0..(len(df) - 1)
          /\ L2(x, index.xb[first + 1]) = 0
          /\ SameEmbedding(columns, df.rows[first + 1], df.rows[i])
          /\ (first /= i - 1 =>
                \E j \in 1..len(df) : j /= i /\ SameEmbedding(columns, df.rows[j], df.rows[i]))

\* a retrieval with the literal text of row i puts row i, or a row with the
\* identical embedding, first in the list
SelfFirst(records, df, columns, text) ==
    \A i \in 1..len(df) :
       CombinedText(columns, df.rows[i]) = text =>
          /\ records /= <<>>
          /\ \E j \in 1..len(df) :
                /\ records[1] = df.rows[j]
                /\ SameEmbedding(columns, df.rows[j], df.rows[i])
          /\ (records[1] /= df.rows[i] =>
                \E j \in 1..len(df) : j /= i /\ SameEmbedding(columns, df.rows[j], df.rows[i]))

\* C7: in the serving process, searching a built index with the embedding
\* of row i's own combined text reports position i as a nearest neighbour,
\* first unless another row has the identical embedding, for every row i;
\* and a /chat query that is the literal text of row i gets row i (or a row
\* tied with it) first in that source's list.
C7_SelfSimilarity ==
    /\ pc = "serving" =>
          /\ SelfNearest(FAQsIndex, FAQsDF, CONFIGRATION.columns_faqs)
          /\ SelfNearest(MENUITEMsIndex, MENUITEMsDF, CONFIGRATION.columns_menuitems)
    /\ ChatRetrieved =>
          /\ SelfFirst(RETRIEVE.value.val["_1_result"], FAQsDF,
                       CONFIGRATION.columns_faqs, call.args.query.val)
          /\ SelfFirst(RETRIEVE.value.val["_2_result"], MENUITEMsDF,
                       CONFIGRATION.columns_menuitems, call.args.query.val)

\* C7 witness: over three FAQ rows, two of them with the same embedding, the
\* literal text of the last row was asked and that row came first.
C7_Witness ==
    /\ ChatRetrieved
    /\ len(FAQsDF) = 3
    /\ CombinedText(CONFIGRATION.columns_faqs, FAQsDF.rows[3]) = call.args.query.val
    /\ \E j \in 1..2 : SameEmbedding(CONFIGRATION.columns_faqs, FAQsDF.rows[j], FAQsDF.rows[3])
    /\ RETRIEVE.value.val["_1_result"][1] = FAQsDF.rows[3]

\* The first step of the last direct retrieve call's try block that fails,
\* with the message of its exception; step "none" if every step succeeds.
FailedStep ==
    LET a == call.args
        enc == encode(a.embedding_model, a.query.val)
        s1 == search(a.index_1, enc.value, a.top_k.num)
        p1 == iloc(a.df_index_1, s1.value)
        s2 == search(a.index_2, enc.value, a.top_k.num)
        p2 == iloc(a.df_index_2, s2.value)
    IN IF enc.outcome /= "return" THEN [step |-> "encode", msg |-> enc.msg]
       ELSE IF s1.outcome /= "return" THEN [step |-> "search_1", msg |-> s1.msg]
       ELSE IF p1.outcome /= "return" THEN [step |-> "iloc_1", msg |-> p1.msg]
       ELSE IF s2.outcome /= "return" THEN [step |-> "search_2", msg |-> s2.msg]
       ELSE IF p2.outcome /= "return" THEN [step |-> "iloc_2", msg |-> p2.msg]
       ELSE [step |-> "none", msg |-> ""]

C9_TopKRejected ==
    (call.op = "retrieve" /\ OthersValid /\ ~TopKValid) =>
        call.outcome = "ValueError" /\ call.value = None

\* C9 witness: a call with top_k = 0 and valid other arguments was rejected.
C9_Witness ==
    /\ call.op = "retrieve" /\ OthersValid
    /\ call.args.top_k = PyInt(0)
    /\ call.outcome = "ValueError"

\* C10: combined with a list of column names of which one is absent from
\* the table raises ValueError, as it does for a non-list or a non-table.
C10_MissingColumnRejected ==
    (/\ call.op = "combined"
     /\ isinstance(call.args.columns, "list")
     /\ isinstance(call.args.df, "DataFrame")
     /\ \E c \in Range(call.args.columns.items) : c \notin Range(call.args.df.columns))
    => call.outcome = "ValueError"

\* C11: after startup, for any sequence of queries, no request changes the
\* two tables, the two embedding matrices or the two indices, and each index
\* holds exactly as many vectors as its table has rows.
C11_ReadOnlyAfterStartup ==
    [][pc = "serving" =>
          /\ ntotal(FAQsIndex) = len(FAQsDF)
          /\ ntotal(MENUITEMsIndex) = len(MENUITEMsDF)
          /\ FAQsDF' = FAQsDF /\ MENUITEMsDF' = MENUITEMsDF
          /\ FAQs_E' = FAQs_E /\ MENUITEMs_E' = MENUITEMs_E
          /\ FAQsIndex' = FAQsIndex /\ MENUITEMsIndex' = MENUITEMsIndex
          /\ ntotal(FAQsIndex') = len(FAQsDF')
          /\ ntotal(MENUITEMsIndex') = len(MENUITEMsDF')]_vars

\* C11 witness: a request over the largest FAQ table was handled (its
\* retrieval returned, its generation raised) and the index still holds one
\* vector per row.
C11_Witness ==
    /\ pc = "serving" /\ call.op = "chat"
    /\ RETRIEVE.outcome = "return" /\ call.status = 500
    /\ len(FAQsDF) = MaxFaqRows
    /\ ntotal(FAQsIndex) = MaxFaqRows

\* the position of a module-level statement in app.py
Stage(p) ==
    CASE p = "ingest_faqs" -> 1 [] p = "ingest_menu" -> 2
      [] p = "dedup_faqs" -> 3 [] p = "dedup_menu" -> 4
      [] p = "combine_faqs" -> 5 [] p = "combine_menu" -> 6
      [] p = "embed_faqs" -> 7 [] p = "embed_menu" -> 8
      [] p = "index_faqs" -> 9 [] p = "index_menu" -> 10
      [] p = "serving" -> 11
      [] OTHER -> 12

\* C13: the build statements run at most once each and in the order ingest,
\* de-duplicate, combine, embed, build index for each source; a table, a
\* matrix or an index is assigned only by its own build statements; a query
\* is handled only once both indices are built, and handling it leaves the
\* process serving without running a build statement again.
C13_PipelineOnce ==
    [][/\ pc' /= pc =>
             /\ Stage(pc) <= 10
             /\ (pc' = "crashed" \/ Stage(pc') = Stage(pc) + 1)
       /\ FAQsDF' /= FAQsDF =>
             pc \in {"ingest_faqs", "dedup_faqs", "combine_faqs", "embed_faqs"}
       /\ MENUITEMsDF' /= MENUITEMsDF =>
             pc \in {"ingest_menu", "dedup_menu", "combine_menu", "embed_menu"}
       /\ FAQs_E' /= FAQs_E => pc = "embed_faqs"
       /\ MENUITEMs_E' /= MENUITEMs_E => pc = "embed_menu"
       /\ FAQsIndex' /= FAQsIndex => pc = "index_faqs"
       /\ MENUITEMsIndex' /= MENUITEMsIndex => pc = "index_menu"
       /\ (RETRIEVE' /= RETRIEVE \/ call'.op = "chat") =>
             /\ pc = "serving" /\ pc' = "serving"
             /\ isinstance(FAQsIndex, "IndexFlatL2")
             /\ isinstance(MENUITEMsIndex, "IndexFlatL2")
             /\ "combined_embedding" \in Range(FAQsDF.columns)
             /\ "combined_embedding" \in Range(MENUITEMsDF.columns)]_vars

\* C13 witness: a query was handled by a process whose startup dropped a
\* duplicate FAQ row.
C13_Witness ==
    /\ pc = "serving" /\ call.op = "chat"
    /\ len(FAQsDF) < Len(db.faqs)
    /\ RETRIEVE.outcome = "return"

\* C14: within one worker at most one /chat request is between the start of
\* its handler and its answer: the retrieve step and the generate step of a
\* request are both over before a step of another request runs.
C14_NoInterleaving ==
    \A i \in Requests : \A j \in Requests :
        (InHandler(i) /\ InHandler(j)) => i = j

\* C14 witness: a request is between its retrieve step and its generate
\* step while another request, already sent, waits.
C14_Witness ==
    \E i \in Requests : \E j \in Requests :
        /\ requests[i].at = "main_generate"
        /\ requests[j].at = "posted"

\* the arguments of the last direct call fail the input validation of the
\* component called
RetrieveInvalid == call.op = "retrieve" /\ ~(OthersValid /\ TopKValid)

EmbeddedInvalid ==
    /\ call.op = "embedded"
    /\ ~(/\ isinstance(call.args.embedding_model, "SentenceTransformer")
         /\ isinstance(call.args.df, "DataFrame")
         /\ isinstance(call.args.column, "str")
         /\ call.args.column.val \in Range(call.args.df.columns))

GenerateValidated ==
    /\ isinstance(call.args.query, "str")
    /\ isinstance(call.args.retriever, "dict")
    /\ isinstance(call.args.generate_model, "AutoModelForSeq2SeqLM")
    /\ isinstance(call.args.tokenizer, "AutoTokenizer")

GenerateInvalid ==
    call.op = "generate" /\ call.args.tokenizer /= Missing /\ ~GenerateValidated

\* C15: a retrieve, embedded or generate call whose arguments fail input
\* validation raises ValueError having made no call to the embedding model,
\* to an index search, to the tokenizer or to the generation model.
C15_ValidationFirst ==
    (RetrieveInvalid \/ EmbeddedInvalid \/ GenerateInvalid) =>
        call.outcome = "ValueError" /\ call.calls = <<>>

\* C15 witness: retrieve was given a valid query and a working model but no
\* table for the first source, and raised ValueError with nothing encoded.
C15_Witness ==
    /\ call.op = "retrieve"
    /\ isinstance(call.args.query, "str")
    /\ isinstance(call.args.embedding_model, "SentenceTransformer")
    /\ ~call.args.embedding_model.raises
    /\ call.args.df_index_1 = None
    /\ call.outcome = "ValueError"
    /\ call.calls = <<>>

\* the text parts of a prompt, concatenated in order
RECURSIVE Concat(_)
Concat(parts) == IF parts = <<>> THEN "" ELSE Head(parts) \o Concat(Tail(parts))

QALine(faq) == Concat(<<"- Q: ", str(faq["question"]), " A: ", str(faq["answer"]), "\n">>)

DishLine(item) ==
    Concat(<<"- ", str(item["name"]), ": ", str(item["description"]),
             " (Ingredients: ", str(item["ingredients"]),
             ", Allergens: ", str(item["allergens"]), ")\n">>)

FaqBlock(faqs) ==
    IF faqs = <<>> THEN ""
    ELSE "FAQs:\n" \o Concat([i \in 1..Len(faqs) |-> QALine(faqs[i])])

MenuBlock(items) ==
    IF items = <<>> THEN ""
    ELSE "\nMenu Items:\n" \o Concat([i \in 1..Len(items) |-> DishLine(items[i])])

QueryPart(query) == Concat(<<"\nUser Query: ", query.val, "\n\n">>)

\* the FAQ and menu lists of the retrieval result given to the last
\* generate call
GivenFaqs == Get(call.args.retriever, "_1_result")
GivenItems == Get(call.args.retriever, "_2_result")

\* the last generate call built a prompt and passed it on
PromptBuilt == call.op = "generate" /\ call.calls /= <<>>

\* C16: the prompt generate builds and hands to the tokenizer is the fixed
\* preamble, then the FAQ block (header, one question/answer line per FAQ
\* record in retrieval order), then the menu block (header, one line per
\* menu record with name, description, ingredients and allergens, in
\* retrieval order), then the literal user query.
C16_PromptOrder ==
    PromptBuilt =>
        /\ call.calls[1].fn = "tokenizer.encode"
        /\ call.calls[1].text
             = Concat(<<Preamble, FaqBlock(GivenFaqs), MenuBlock(GivenItems),
                        QueryPart(call.args.query)>>)

\* C16 witness: a prompt was built from two different FAQ records and two
\* different menu records and generation returned.
C16_Witness ==
    /\ PromptBuilt /\ call.outcome = "return"
    /\ Len(GivenFaqs) >= 2 /\ GivenFaqs[1] /= GivenFaqs[2]
    /\ Len(GivenItems) >= 2 /\ GivenItems[1] /= GivenItems[2]

\* C17: generate given validated arguments and a retrieval result whose FAQ
\* list and menu list are both empty or missing builds the prompt of preamble
\* and query only, hands it to the tokenizer and its token ids to the
\* generation model, and returns the text unless one of those calls raises.
C17_EmptyRetrieval ==
    (/\ call.op = "generate" /\ GenerateValidated
     /\ GivenFaqs = <<>> /\ GivenItems = <<>>)
    =>
        /\ call.outcome \in {"return", "RuntimeError"}
        /\ call.calls /= <<>>
        /\ call.calls[1].text = Preamble \o QueryPart(call.args.query)
        /\ ~call.args.tokenizer.raises =>
              /\ Len(call.calls) >= 2
              /\ call.calls[2].fn = "generate_model.generate"
              /\ call.calls[2].input_ids
                   = Tensor(Preamble \o QueryPart(call.args.query))
        /\ (~call.args.tokenizer.raises /\ ~call.args.generate_model.raises) =>
              call.outcome = "return" /\ isinstance(call.value, "str")

\* C17 witness: generate was given a result dict without the two list keys
\* and returned text.
C17_Witness ==
    /\ call.op = "generate" /\ GenerateValidated
    /\ DOMAIN call.args.retriever.val = {"query"}
    /\ Len(call.calls) = 3
    /\ call.outcome = "return"

\* the positions in the last call's trace at which the generation model was
\* invoked
GenerateCalls ==
    {i \in 1..Len(call.calls) : call.calls[i].fn = "generate_model.generate"}

\* C18: a generate call invokes the generation model at most once, asking
\* for one output sequence; if that invocation raises, it is the last call
\* generate makes, and generate raises RuntimeError and returns no text.
C18_SingleAttempt ==
    call.op = "generate" =>
        /\ Cardinality(GenerateCalls) <= 1
        /\ \A i \in GenerateCalls : call.calls[i].num_return_sequences = 1
        /\ (GenerateCalls /= {} /\ call.args.generate_model.raises) =>
              /\ call.outcome = "RuntimeError"
              /\ call.value = None
              /\ call.calls[Len(call.calls)].fn = "generate_model.generate"

\* C18 witness: the generation model was invoked with the prompt's token
\* ids, raised, and generate raised RuntimeError.
C18_Witness ==
    /\ call.op = "generate"
    /\ GenerateCalls = {2}
    /\ call.args.generate_model.raises
    /\ call.outcome = "RuntimeError"

\* the last direct combined call returned a table
Combined == call.op = "combined" /\ call.outcome = "return"

\* C19: the table combined returns has the rows of the input table in the
\* same order under the same labels, every column of the input table with
\* the value it had, and differs from the input only by the added column
\* 'combined'.
C19_CombinedPreserves ==
    Combined =>
        /\ len(call.value) = len(call.args.df)
        /\ call.value.index = call.args.df.index
        /\ Range(call.value.columns) = Range(call.args.df.columns) \cup {"combined"}
        /\ \A i \in 1..len(call.args.df) :
              /\ DOMAIN call.value.rows[i] = DOMAIN call.args.df.rows[i] \cup {"combined"}
              /\ \A c \in DOMAIN call.args.df.rows[i] :
                    call.value.rows[i][c] = call.args.df.rows[i][c]

\* the texts joined left to right with one space between neighbours
RECURSIVE SpaceJoined(_)
SpaceJoined(texts) ==
    IF texts = <<>> THEN ""
    ELSE IF Len(texts) = 1 THEN texts[1]
    ELSE SpaceJoined(SubSeq(texts, 1, Len(texts) - 1)) \o " " \o texts[Len(texts)]

\* C20: in every row of the table combined returns, 'combined' is the
\* string forms of the input row's values in the named columns, in the order
\* the names were given, joined by single spaces.
C20_CombinedValue ==
    Combined =>
        \A i \in 1..len(call.value) :
            call.value.rows[i]["combined"]
              = Txt(SpaceJoined([c \in 1..Len(call.args.columns.items) |->
                        str(call.args.df.rows[i][call.args.columns.items[c]])]))

\* C20 witness: the columns were named in an order other than the table's
\* and a row with a NULL answer got the text "None patio".
C20_Witness ==
    /\ Combined
    /\ call.args.columns = PyList(<<"answer", "question">>)
    /\ \E i \in 1..len(call.value) :
          /\ call.args.df.rows[i]["answer"] = Null
          /\ call.value.rows[i]["combined"] = Txt("None patio")

\* the arguments of the last direct embedded call pass its validation
EmbeddedValidated == call.op = "embedded" /\ ~EmbeddedInvalid

\* C21: embedded on a table of N >= 1 rows and a working model returns a
\* matrix of shape (N, width of the model's vectors) whose row i is the
\* model's embedding of the text-column value of table row i.
C21_MatrixRows ==
    (EmbeddedValidated /\ len(call.args.df) >= 1 /\ ~call.args.embedding_model.raises) =>
        /\ call.outcome = "return"
        /\ isinstance(call.value, "ndarray")
        /\ call.value.shape = <<len(call.args.df), call.args.embedding_model.dim>>
        /\ Len(call.value.data) = len(call.args.df)
        /\ \A i \in 1..len(call.args.df) :
              /\ Len(call.value.data[i]) = call.args.embedding_model.dim
              /\ call.value.data[i]
                   = encode(call.args.embedding_model,
                            str(call.args.df.rows[i][call.args.column.val])).value

\* C21 witness: a model of another width than the default embedded a table of
\* the largest size whose first two rows have different embeddings.
C21_Witness ==
    /\ EmbeddedValidated /\ call.outcome = "return"
    /\ call.args.embedding_model.dim = EmbDim + 1
    /\ len(call.args.df) = MaxFaqRows
    /\ call.value.data[1] /= call.value.data[2]

\* the array handed to the last direct create_faiss_index call
IndexedArray == call.args.embedding_array

\* C22: create_faiss_index on a matrix of shape (N, D) returns a flat L2
\* index of dimension D holding exactly the N rows, position i the matrix
\* row i; an array that is not 2-D is rejected with ValueError and no index.
C22_IndexOfMatrix ==
    (call.op = "create_faiss_index" /\ isinstance(IndexedArray, "ndarray")) =>
        IF Len(IndexedArray.shape) = 2
        THEN /\ call.outcome = "return"
             /\ isinstance(call.value, "IndexFlatL2")
             /\ call.value.d = IndexedArray.shape[2]
             /\ ntotal(call.value) = IndexedArray.shape[1]
             /\ \A i \in 1..IndexedArray.shape[1] : call.value.xb[i] = IndexedArray.data[i]
        ELSE call.outcome = "ValueError" /\ call.value = None

\* C22 witness: a matrix of the largest size, with different first and last
\* rows and a width other than the default, was indexed.
C22_Witness ==
    /\ call.op = "create_faiss_index" /\ call.outcome = "return"
    /\ IndexedArray.shape = <<MaxFaqRows, EmbDim + 1>>
    /\ IndexedArray.data[1] /= IndexedArray.data[MaxFaqRows]
    /\ ntotal(call.value) = MaxFaqRows

\* C22 witness of the rejection: a 1-D array was handed in.
C22_WitnessRejected ==
    /\ call.op = "create_faiss_index" /\ isinstance(IndexedArray, "ndarray")
    /\ Len(IndexedArray.shape) = 1 /\ call.outcome = "ValueError"

\* the width of the query embedding of the last direct retrieve call
QueryWidth == call.args.embedding_model.dim

\* C23: when the width of the query embedding differs from the dimension of
\* either index, retrieve raises and returns no result at all.
C23_DimensionMismatch ==
    (/\ call.op = "retrieve" /\ OthersValid /\ TopKValid
     /\ ~call.args.embedding_model.raises
     /\ (QueryWidth /= call.args.index_1.d \/ QueryWidth /= call.args.index_2.d)) =>
        /\ call.outcome = "RuntimeError"
        /\ call.value = None

\* C23 witness: the first index matches the query width and its table has
\* rows to return, the second index is wider, and the call raised.
C23_Witness ==
    /\ call.op = "retrieve" /\ OthersValid /\ TopKValid
    /\ ~call.args.embedding_model.raises
    /\ QueryWidth = call.args.index_1.d
    /\ QueryWidth /= call.args.index_2.d
    /\ ntotal(call.args.index_1) >= 1 /\ len(call.args.df_index_1) = ntotal(call.args.index_1)
    /\ ntotal(call.args.index_2) >= 1
    /\ call.outcome = "RuntimeError"

\* the last direct ingest call was given the path of a database and a query
\* string, and executing the query failed
QueryFailed ==
    /\ call.op = "ingest"
    /\ isinstance(call.args.db_path, "sqlite") /\ isinstance(call.args.query, "str")
    /\ execute_query(call.args.db_path, call.args.query).outcome /= "return"

StoreMissing ==
    /\ call.op = "ingest"
    /\ call.args.db_path = Absent /\ isinstance(call.args.query, "str")

\* C24: ingest returns no table when the store is missing or the query
\* fails: a missing store raises FileNotFoundError with no connection opened,
\* a failing query raises sqlite3.Error after one execution.
C24_IngestFailures ==
    /\ StoreMissing =>
          /\ call.outcome = "FileNotFoundError" /\ call.value = None
          /\ call.conn = "none" /\ call.calls = <<>>
    /\ QueryFailed =>
          /\ call.outcome = "sqlite3.Error" /\ call.value = None
          /\ Cardinality({i \in DOMAIN call.calls : call.calls[i] = "pd.read_sql_query"}) <= 1

\* the positions the index search of the last direct retrieve call reported
\* for a source
ReportedLabels(index) ==
    search(index, encode(call.args.embedding_model, call.args.query.val).value,
           call.args.top_k.num).value

\* every record is the row at a reported position p with 0 <= p < M, and no
\* row is in the list twice
OnlyNeighbours(records, labels, df) ==
    /\ Len(records) <= Len(labels)
    /\ \A j \in 1..Len(records) :
          /\ labels[j] \in 0..(len(df) - 1)
          /\ records[j] = df.rows[labels[j] + 1]
    /\ \A j, k \in 1..Len(records) : j /= k => records[j] /= records[k]

\* C25: every record of a retrieval result is the table row at a position
\* 0 <= p < M that the search reported; the 'no neighbour' position -1 is
\* never projected onto a row, so no row pads a list or appears twice in it.
C25_NoSentinelRows ==
    Retrieved =>
        /\ OnlyNeighbours(call.value.val["_1_result"], ReportedLabels(call.args.index_1),
                          call.args.df_index_1)
        /\ OnlyNeighbours(call.value.val["_2_result"], ReportedLabels(call.args.index_2),
                          call.args.df_index_2)

\* the last direct call was rejected by the type validation of the handle
\* in the named argument
HandleRejected(argument, class) ==
    /\ call.outcome = "ValueError"
    /\ call.msg = "The '" \o argument \o "' must be an instance of " \o class \o "."

\* C26: the handles loaded at startup pass the type validation of the
\* functions they are handed to: FLANMODEL that of generate, EMBEDDINGMODEL
\* that of retrieve and of embedded.
C26_HandlesAccepted ==
    /\ (call.op = "generate" /\ call.args.generate_model = FLANMODEL) =>
          ~HandleRejected("generate_model", "AutoModelForSeq2SeqLM")
    /\ (call.op \in {"retrieve", "embedded"} /\ call.args.embedding_model = EMBEDDINGMODEL) =>
          ~HandleRejected("embedding_model", "SentenceTransformer")

\* the FAQ table as it was handed to embedded: ingested, de-duplicated, combined
FaqTableBeforeEmbedded ==
    combined(CONFIGRATION.columns_faqs,
             drop_duplicates(ingest(db, CONFIGRATION.FAQsQ).value)).df

\* a record holds the ingested columns and the combined field, nothing else
OnlyIngestedColumns(records, columns) ==
    \A j \in 1..Len(records) : DOMAIN records[j] = Range(columns) \cup {"combined"}

\* C27: embedded leaves the table it is given as it was, so once the FAQ
\* matrix is built the FAQ table is still the combined table, and every
\* record of a /chat retrieval holds only the ingested columns and 'combined'.
C27_EmbeddedNoEffect ==
    /\ (FAQs_E /= None /\ pc /= "crashed") => FAQsDF = FaqTableBeforeEmbedded
    /\ ChatRetrieved =>
          /\ OnlyIngestedColumns(RETRIEVE.value.val["_1_result"], FaqColumns)
          /\ OnlyIngestedColumns(RETRIEVE.value.val["_2_result"], MenuColumns)

\* the last direct retrieve call repeated with another pair for one source
WithSource1(pair) ==
    retrieve(call.args.query, call.args.embedding_model, pair.index, call.args.index_2,
             pair.df, call.args.df_index_2, call.args.top_k)

WithSource2(pair) ==
    retrieve(call.args.query, call.args.embedding_model, call.args.index_1, pair.index,
             call.args.df_index_1, pair.df, call.args.top_k)

\* C28: among successful retrieve calls with the same query, model and
\* top_k, the list of a source is the same whatever valid pair the other
\* source is: it depends only on its own index and table.
C28_SourcesIndependent ==
    Retrieved =>
        /\ \A pair \in MenuPairs :
              LET other == WithSource2(pair)
              IN other.outcome = "return" =>
                    other.value.val["_1_result"] = call.value.val["_1_result"]
        /\ \A pair \in FaqPairs :
              LET other == WithSource1(pair)
              IN other.outcome = "return" =>
                    other.value.val["_2_result"] = call.value.val["_2_result"]

\* C28 witness: a retrieve over two non-empty sources returned, and the same
\* call with a second source of another size and with a first source of
\* another size returns too, with another list for the replaced source.
C28_Witness ==
    /\ Retrieved
    /\ len(call.args.df_index_1) >= 1 /\ len(call.args.df_index_2) >= 1
    /\ \E pair \in MenuPairs :
          /\ len(pair.df) /= len(call.args.df_index_2)
          /\ WithSource2(pair).outcome = "return"
          /\ WithSource2(pair).value.val["_2_result"] /= call.value.val["_2_result"]
    /\ \E pair \in FaqPairs :
          /\ len(pair.df) /= len(call.args.df_index_1)
          /\ WithSource1(pair).outcome = "return"
          /\ WithSource1(pair).value.val["_1_result"] /= call.value.val["_1_result"]

\* the last direct ingest call opened a connection
ConnectionOpened ==
    /\ call.op = "ingest"
    /\ \E i \in DOMAIN call.calls : call.calls[i] = "sqlite3.connect"
    /\ call.conn /= "none"

\* C29: every connection ingest opens is closed when ingest returns or
\* raises, whether the query succeeded or failed.
C29_ConnectionClosed ==
    ConnectionOpened =>
        /\ call.conn = "closed"
        /\ call.calls[Len(call.calls)] = "conn.close"

\* the YAML files of the directory the last config_yaml_reader call listed
YamlFiles ==
    {call.args.directory.entries[i] : i \in {j \in DOMAIN call.args.directory.entries :
                                              endswith(call.args.directory.entries[j], ".yaml")}}

\* C30: config_yaml_reader opens a YAML file of the configuration directory
\* whenever the directory has one, wherever it is in the listing, and raises
\* FileNotFoundError 'No YAML configuration file found' only when the
\* directory has none.
C30_YamlSelected ==
    (call.op = "config_yaml_reader" /\ call.args.directory /= Absent) =>
        /\ YamlFiles /= {} =>
              \E name \in YamlFiles : call.opened = PyStr(path_join(ConfigDir, name))
        /\ (/\ call.outcome = "FileNotFoundError"
            /\ call.msg = "No YAML configuration file found in the directory.") =>
              YamlFiles = {}

====
